--------------------------- MODULE CodedFileProofs ---------------------------
(***************************************************************************)
(* Proofs about CodedFile: a file that Close() calls written is written    *)
(* (WriterInv); the checks of the streams hold whatever calls a reader     *)
(* makes (CursorInv); the end of a message is noted only at an end; and,   *)
(* where skips are exact, the readers implement ByteCursor.  All of them   *)
(* speak about any block size, any INT_MAX, any script of the writer and   *)
(* any number of readers and limits.                                       *)
(*                                                                         *)
(* The module goes from the parts to the whole: the operators of           *)
(* FileStreams and of CodedInput, the invariant action by action, and then *)
(* what each action is in ByteCursor.                                      *)
(***************************************************************************)
EXTENDS CodedFile, SequenceTheorems, WellFoundedInduction, TLAPS

-----------------------------------------------------------------------------
(* Fronts and rests of sequences *)

LEMMA FrontOf ==
  ASSUME NEW S, NEW s \in Seq(S), NEW n \in 0 .. Len(s)
  PROVE  /\ Front(s, n) \in Seq(S) /\ Len(Front(s, n)) = n
         /\ \A i \in 1 .. n : Front(s, n)[i] = s[i]
<1>1. \A i \in 1 .. n : s[i] \in S
  BY ElementOfSeq, LenProperties
<1>2. n \in Nat
  BY LenProperties
<1> QED
  BY <1>1, <1>2, SubSeqProperties DEF Front

LEMMA DropOf ==
  ASSUME NEW S, NEW s \in Seq(S), NEW n \in 0 .. Len(s)
  PROVE  /\ Drop(s, n) \in Seq(S) /\ Len(Drop(s, n)) = Len(s) - n
         /\ \A i \in 1 .. Len(s) - n : Drop(s, n)[i] = s[n + i]
<1>0. Len(s) \in Nat /\ n \in Nat
  BY LenProperties
<1>1. \A i \in n + 1 .. Len(s) : s[i] \in S
  BY <1>0, ElementOfSeq
<1>2. /\ SubSeq(s, n + 1, Len(s)) \in Seq(S)
      /\ Len(SubSeq(s, n + 1, Len(s)))
           = IF n + 1 <= Len(s) THEN Len(s) - (n + 1) + 1 ELSE 0
      /\ \A i \in 1 .. Len(s) - (n + 1) + 1 :
           SubSeq(s, n + 1, Len(s))[i] = s[n + 1 + i - 1]
  BY <1>0, <1>1, SubSeqProperties
<1> HIDE DEF Drop
<1>3. Drop(s, n) = SubSeq(s, n + 1, Len(s))
  BY DEF Drop
<1>4. \A i \in 1 .. Len(s) - n : Drop(s, n)[i] = s[n + i]
  <2> TAKE i \in 1 .. Len(s) - n
  <2>1. i \in 1 .. Len(s) - (n + 1) + 1 /\ n + 1 + i - 1 = n + i
    BY <1>0
  <2> QED
    BY <1>2, <1>3, <2>1
<1>5. Len(Drop(s, n)) = Len(s) - n
  BY <1>0, <1>2, <1>3
<1> QED
  BY <1>2, <1>3, <1>4, <1>5

LEMMA BlockOf ==
  ASSUME NEW S, NEW s \in Seq(S), NEW a \in Nat, NEW r \in Nat, a + r <= Len(s)
  PROVE  /\ SubSeq(s, a + 1, a + r) \in Seq(S)
         /\ Len(SubSeq(s, a + 1, a + r)) = r
         /\ \A j \in 1 .. r : SubSeq(s, a + 1, a + r)[j] = s[a + j]
<1> DEFINE m == a + 1
           n == a + r
<1>0. Len(s) \in Nat /\ m \in Int /\ n \in Int /\ n - m + 1 = r
      /\ (IF m <= n THEN n - m + 1 ELSE 0) = r
  BY LenProperties
<1>1. \A i \in m .. n : s[i] \in S
  BY <1>0, ElementOfSeq
<1>2. \A j \in 1 .. r : m + j - 1 = a + j
  OBVIOUS
<1> HIDE DEF m, n
<1>3. /\ SubSeq(s, m, n) \in Seq(S)
      /\ Len(SubSeq(s, m, n)) = IF m <= n THEN n - m + 1 ELSE 0
      /\ \A j \in 1 .. n - m + 1 : SubSeq(s, m, n)[j] = s[m + j - 1]
  BY <1>0, <1>1, SubSeqProperties
<1>4. /\ SubSeq(s, m, n) \in Seq(S) /\ Len(SubSeq(s, m, n)) = r
      /\ \A j \in 1 .. r : SubSeq(s, m, n)[j] = s[a + j]
  BY <1>0, <1>2, <1>3, Zenon
<1> QED
  BY <1>4, Zenon DEF m, n

LEMMA FrontAndDrop ==
  ASSUME NEW S, NEW s \in Seq(S), NEW n \in 0 .. Len(s)
  PROVE  Front(s, n) \o Drop(s, n) = s
<1>0. Len(s) \in Nat
  BY LenProperties
<1> DEFINE one == 1
<1>2. one \in 1 .. Len(s) + 1 /\ n \in one - 1 .. Len(s) /\ Len(s) \in n .. Len(s)
  BY <1>0
<1> HIDE DEF one
<1>3. SubSeq(s, one, n) \o SubSeq(s, n + 1, Len(s)) = SubSeq(s, one, Len(s))
  BY <1>2, ConcatAdjacentSubSeq
<1>1. SubSeq(s, 1, n) \o SubSeq(s, n + 1, Len(s)) = SubSeq(s, 1, Len(s))
  BY <1>3, Zenon DEF one
<1> QED
  BY <1>1, SubSeqFull DEF Front, Drop

LEMMA FrontWhole ==
  ASSUME NEW S, NEW s \in Seq(S)
  PROVE  Front(s, Len(s)) = s /\ Front(s, 0) = <<>> /\ Drop(s, 0) = s
<1>1. SubSeq(s, 1, Len(s)) = s
  BY SubSeqFull
<1>2. SubSeq(s, 1, 0) = <<>>
  BY SubSeqEmpty
<1>3. 0 + 1 = 1
  OBVIOUS
<1> QED
  BY <1>1, <1>2, <1>3, Zenon DEF Front, Drop

\* s with n elements of r behind its first ones.
Overwritten(s, r, at, n) ==
  [i \in DOMAIN s |-> IF i - at \in 1 .. n THEN r[i - at] ELSE s[i]]

\* Bytes stored behind the first ones of a buffer follow them.
LEMMA StoredBytes ==
  ASSUME NEW S, NEW s \in Seq(S), NEW r \in Seq(S),
         NEW at \in 0 .. Len(s), NEW n \in 0 .. Len(r), at + n <= Len(s)
  PROVE  /\ Overwritten(s, r, at, n) \in Seq(S)
         /\ Len(Overwritten(s, r, at, n)) = Len(s)
         /\ Front(Overwritten(s, r, at, n), at + n)
              = Front(s, at) \o Front(r, n)
<1> DEFINE b == Overwritten(s, r, at, n)
<1>b. b = [i \in DOMAIN s |->
             IF i - at \in 1 .. n THEN r[i - at] ELSE s[i]]
  BY DEF Overwritten
<1> HIDE DEF b
<1>0. Len(s) \in Nat /\ Len(r) \in Nat /\ DOMAIN s = 1 .. Len(s)
      /\ at \in Nat /\ n \in Nat
  BY LenProperties
<1>1. \A i \in 1 .. Len(s) : b[i] \in S
  <2> TAKE i \in 1 .. Len(s)
  <2>1. CASE i - at \in 1 .. n
    <3>1. i - at \in 1 .. Len(r)
      BY <1>0, <2>1
    <3> QED
      BY <1>0, <1>b, <2>1, <3>1, ElementOfSeq
  <2>2. CASE i - at \notin 1 .. n
    BY <1>0, <1>b, <2>2, ElementOfSeq
  <2> QED
    BY <2>1, <2>2
<1>2. b \in Seq(S) /\ Len(b) = Len(s)
  <2>1. b \in [1 .. Len(s) -> S]
    BY <1>0, <1>1, <1>b
  <2> QED
    BY <1>0, <2>1
<1>3. at + n \in 0 .. Len(b)
  BY <1>0, <1>2
<1>4. /\ Front(b, at + n) \in Seq(S) /\ Len(Front(b, at + n)) = at + n
      /\ \A i \in 1 .. at + n : Front(b, at + n)[i] = b[i]
  BY <1>2, <1>3, FrontOf
<1>5. /\ Front(s, at) \in Seq(S) /\ Len(Front(s, at)) = at
      /\ \A i \in 1 .. at : Front(s, at)[i] = s[i]
  BY FrontOf
<1>6. /\ Front(r, n) \in Seq(S) /\ Len(Front(r, n)) = n
      /\ \A i \in 1 .. n : Front(r, n)[i] = r[i]
  BY FrontOf
<1> DEFINE p == Front(s, at)
           q == Front(r, n)
<1>p. p \in Seq(S) /\ q \in Seq(S) /\ Len(p) = at /\ Len(q) = n
  BY <1>5, <1>6
<1> HIDE DEF p, q
<1>c. /\ p \o q \in Seq(S) /\ Len(p \o q) = at + n
      /\ \A i \in 1 .. at + n :
           (p \o q)[i] = IF i <= at THEN p[i] ELSE q[i - at]
  BY <1>p, ConcatProperties
<1>7. /\ Front(s, at) \o Front(r, n) \in Seq(S)
      /\ Len(Front(s, at) \o Front(r, n)) = at + n
      /\ \A i \in 1 .. at + n :
           (Front(s, at) \o Front(r, n))[i] =
             IF i <= at THEN Front(s, at)[i] ELSE Front(r, n)[i - at]
  BY <1>c, Zenon DEF p, q
<1>8. \A i \in 1 .. at + n :
        Front(b, at + n)[i] = (Front(s, at) \o Front(r, n))[i]
  <2> TAKE i \in 1 .. at + n
  <2>0. i \in DOMAIN s
    BY <1>0
  <2>1. CASE i <= at
    <3>1. i \in 1 .. at /\ i - at \notin 1 .. n
      BY <1>0, <2>1
    <3>2. b[i] = s[i]
      BY <1>b, <2>0, <3>1
    <3>3. Front(s, at)[i] = s[i]
      BY <1>5, <3>1
    <3> QED
      BY <1>4, <1>7, <2>1, <3>2, <3>3
  <2>2. CASE ~(i <= at)
    <3>1. i - at \in 1 .. n
      BY <1>0, <2>2
    <3> QED
      BY <1>4, <1>6, <1>7, <1>b, <2>0, <2>2, <3>1
  <2> QED
    BY <2>1, <2>2
<1>9. Front(b, at + n) = Front(s, at) \o Front(r, n)
  BY <1>4, <1>7, <1>8, SeqEqual
<1> QED
  BY <1>2, <1>9 DEF b
-----------------------------------------------------------------------------
(* The writer.  Until a write fails, what is in the file, in the used part of *)
(* the buffer and still to be copied makes up what was accepted and what is   *)
(* being written; a failure is remembered, and Close() reports it.            *)

Bytes == Seq(Nat)

OutStreams ==
  [failed_ : BOOLEAN, position_ : Nat, buffer_ : Bytes,
   is_closed_ : BOOLEAN, sound : BOOLEAN]

CodedStreams ==
  [open : BOOLEAN, buffer_size_ : Nat, total_bytes_ : Nat, item : Nat \ {0},
   rest : Bytes, writing : BOOLEAN]

\* What the buffer holds of the writer's bytes.
Kept == Front(out.buffer_, Len(out.buffer_) - cos.buffer_size_)

BeingWritten == IF cos.writing THEN Script[cos.item] ELSE <<>>

WriterTypes ==
  /\ file \in Bytes /\ accepted \in Bytes
  /\ closed \in {"open", "ok", "failed", "gone"}
  /\ out \in OutStreams /\ out.sound
  /\ cos \in CodedStreams

WriterBuffer ==
  /\ Len(out.buffer_) <= BlockSize
  /\ cos.buffer_size_ <= Len(out.buffer_)
  /\ cos.buffer_size_ > 0 => Len(out.buffer_) = BlockSize

WriterStage ==
  /\ cos.open => closed = "open"
  /\ ~cos.open => cos.buffer_size_ = 0 /\ ~cos.writing
  /\ cos.writing => cos.item <= Len(Script)
  /\ ~cos.writing => cos.rest = <<>>

NothingLost ==
  closed = "open" /\ ~out.failed_ =>
    (file \o Kept) \o cos.rest = accepted \o BeingWritten

WriterInv ==
  /\ WriterTypes /\ WriterBuffer /\ WriterStage
  /\ NothingLost /\ CloseTellsTheTruth

\* No bytes are bytes.
LEMMA EmptyBytes == <<>> \in Bytes /\ Len(<<>>) = 0
BY DEF Bytes

\* The r bytes of f behind the first a ones.
Block(f, a, r) == SubSeq(f, a + 1, a + r)

\* A block has the bytes it should.
LEMMA BlockBytes ==
  ASSUME NEW f \in Bytes, NEW a \in Nat, NEW r \in Nat, a + r <= Len(f)
  PROVE  /\ Block(f, a, r) \in Bytes /\ Len(Block(f, a, r)) = r
         /\ \A j \in 1 .. r : Block(f, a, r)[j] = f[a + j]
<1>1. \A S : \A s \in Seq(S) : \A m \in Nat : \A n \in Nat :
        m + n <= Len(s) =>
          /\ Block(s, m, n) \in Seq(S) /\ Len(Block(s, m, n)) = n
          /\ \A j \in 1 .. n : Block(s, m, n)[j] = s[m + j]
  BY BlockOf DEF Block
<1> QED
  BY <1>1 DEF Bytes

\* Appending is associative.
LEMMA Concatenation ==
  ASSUME NEW a \in Bytes, NEW b \in Bytes, NEW c \in Bytes
  PROVE  (a \o b) \o c = a \o (b \o c)
<1> DEFINE Cat(p, q) == p \o q
<1>1. \A S : \A p, q, r \in Seq(S) : Cat(Cat(p, q), r) = Cat(p, Cat(q, r))
  BY ConcatAssociative
<1> HIDE DEF Cat
<1>2. Cat(Cat(a, b), c) = Cat(a, Cat(b, c))
  BY <1>1 DEF Bytes
<1> QED
  BY <1>2 DEF Cat

\* What is moved from the front of what follows to the end of what goes before stays in place.
LEMMA MiddleConcatenation ==
  ASSUME NEW a \in Bytes, NEW b \in Bytes, NEW c \in Bytes, NEW d \in Bytes
  PROVE  (a \o (b \o c)) \o d = (a \o b) \o (c \o d)
<1> DEFINE Cat(p, q) == p \o q
<1>1. \A p, q \in Bytes : Cat(p, q) \in Bytes
  BY ConcatProperties DEF Bytes
<1>2. \A p, q, r \in Bytes : Cat(Cat(p, q), r) = Cat(p, Cat(q, r))
  BY Concatenation
<1> HIDE DEF Cat
<1>3. Cat(Cat(a, Cat(b, c)), d) = Cat(Cat(a, b), Cat(c, d))
  BY <1>1, <1>2
<1> QED
  BY <1>3 DEF Cat

LEMMA WriteBufferBytes ==
  ASSUME file \in Bytes, NEW x \in OutStreams, NEW w \in WriteBuffer(x)
  PROVE  /\ w.ok \in BOOLEAN /\ w.file \in Bytes
         /\ w.out \in OutStreams /\ w.out.sound = x.sound
         /\ w.ok => /\ ~x.failed_ /\ ~w.out.failed_
                    /\ w.file = file \o x.buffer_ /\ w.out.buffer_ = <<>>
         /\ ~w.ok => /\ w.out.failed_
                     /\ w.out.buffer_ = <<>> \/ w.out.buffer_ = x.buffer_
<1> DEFINE buf == x.buffer_
<1>0. buf \in Bytes /\ Len(buf) \in Nat /\ <<>> \in Bytes
  BY DEF OutStreams, Bytes
<1>1. CASE x.failed_
  <2>1. w = [ok |-> FALSE, file |-> file, out |-> x]
    BY <1>1, Zenon DEF WriteBuffer, Written
  <2>2. w.ok = FALSE /\ w.file = file /\ w.out = x
    BY <2>1
  <2> QED
    BY <1>1, <2>2
<1>2. CASE ~x.failed_ /\ w = Written(TRUE, file \o buf,
             [x EXCEPT !.position_ = @ + Len(buf), !.buffer_ = <<>>])
  <2>1. file \o buf \in Bytes
    BY <1>0 DEF Bytes
  <2>2. x.position_ + Len(buf) \in Nat
    BY <1>0 DEF OutStreams
  <2> HIDE DEF buf
  <2>3. [x EXCEPT !.position_ = @ + Len(buf), !.buffer_ = <<>>] \in OutStreams
    BY <1>0, <2>2 DEF OutStreams
  <2>4. /\ w.ok = TRUE /\ w.file = file \o buf
        /\ w.out = [x EXCEPT !.position_ = @ + Len(buf), !.buffer_ = <<>>]
    BY <1>2 DEF Written
  <2>5. /\ w.out.failed_ = x.failed_ /\ w.out.buffer_ = <<>>
        /\ w.out.sound = x.sound
    BY <2>4 DEF OutStreams
  <2> QED
    BY <1>2, <2>1, <2>3, <2>4, <2>5 DEF buf
<1>3. CASE ~x.failed_ /\ \E k \in 0 .. Len(buf) - 1 :
             w = Written(FALSE, file \o Front(buf, k),
                         [x EXCEPT !.failed_ = TRUE, !.buffer_ = <<>>])
  <2>0. PICK k \in 0 .. Len(buf) - 1 :
          w = Written(FALSE, file \o Front(buf, k),
                      [x EXCEPT !.failed_ = TRUE, !.buffer_ = <<>>])
    BY <1>3
  <2>1. Front(buf, k) \in Bytes
    BY <1>0, FrontOf DEF Bytes
  <2>2. file \o Front(buf, k) \in Bytes
    BY <2>1 DEF Bytes
  <2> HIDE DEF buf
  <2>3. [x EXCEPT !.failed_ = TRUE, !.buffer_ = <<>>] \in OutStreams
    BY <1>0 DEF OutStreams
  <2>4. /\ w.ok = FALSE /\ w.file = file \o Front(buf, k)
        /\ w.out = [x EXCEPT !.failed_ = TRUE, !.buffer_ = <<>>]
    BY <2>0 DEF Written
  <2>5. w.out.failed_ = TRUE /\ w.out.buffer_ = <<>> /\ w.out.sound = x.sound
    BY <2>4 DEF OutStreams
  <2> QED
    BY <2>2, <2>3, <2>4, <2>5
<1> QED
  BY <1>1, <1>2, <1>3 DEF WriteBuffer

LEMMA OutNextBytes ==
  ASSUME file \in Bytes, NEW x \in OutStreams, Len(x.buffer_) <= BlockSize,
         NEW w \in OutNext(x)
  PROVE  /\ w.ok \in BOOLEAN /\ w.file \in Bytes /\ w.size \in 0 .. BlockSize
         /\ w.out \in OutStreams /\ w.out.sound = x.sound
         /\ Len(w.out.buffer_) <= BlockSize
         /\ w.ok => Len(w.out.buffer_) = BlockSize
         /\ ~w.ok => w.size = 0 /\ w.out.failed_
         /\ w.ok /\ ~w.out.failed_ =>
              /\ ~x.failed_
              /\ w.file \o Front(w.out.buffer_, BlockSize - w.size)
                   = file \o x.buffer_
<1>0. BlockSize \in Nat \ {0} /\ x.buffer_ \in Bytes /\ Len(x.buffer_) \in Nat
      /\ <<>> \in Bytes /\ Len(<<>>) = 0
  BY BlockSizeAssumption DEF OutStreams, Bytes
<1> DEFINE garbage(size) == [i \in 1 .. size |-> Garbage]
           more(o) == [o.out EXCEPT !.buffer_ =
             IF o.ok THEN @ \o garbage(BlockSize - Len(o.out.buffer_)) ELSE @]
<1>1. PICK o \in IF Len(x.buffer_) = BlockSize THEN WriteBuffer(x)
                 ELSE {Written(TRUE, file, x)} :
        w = [ok |-> o.ok, file |-> o.file,
             size |-> IF o.ok THEN BlockSize - Len(o.out.buffer_) ELSE 0,
             out |-> more(o)]
  BY DEF OutNext
<1>2. /\ o.ok \in BOOLEAN /\ o.file \in Bytes
      /\ o.out \in OutStreams /\ o.out.sound = x.sound
      /\ Len(o.out.buffer_) <= BlockSize
      /\ ~o.ok => o.out.failed_
      /\ o.ok => /\ o.out.failed_ = x.failed_
                 /\ o.file \o o.out.buffer_ = file \o x.buffer_
  <2>1. CASE Len(x.buffer_) = BlockSize
    <3>1. o \in WriteBuffer(x)
      BY <1>1, <2>1
    <3>2. /\ o.ok \in BOOLEAN /\ o.file \in Bytes
          /\ o.out \in OutStreams /\ o.out.sound = x.sound
          /\ o.ok => /\ ~x.failed_ /\ ~o.out.failed_
                     /\ o.file = file \o x.buffer_ /\ o.out.buffer_ = <<>>
          /\ ~o.ok => /\ o.out.failed_
                      /\ o.out.buffer_ = <<>> \/ o.out.buffer_ = x.buffer_
      BY <3>1, WriteBufferBytes
    <3>3. x.failed_ \in BOOLEAN /\ o.out.failed_ \in BOOLEAN
      BY <3>2 DEF OutStreams
    <3>4. o.ok => o.file \o o.out.buffer_ = file \o x.buffer_
      BY <3>2, ConcatEmptySeq DEF Bytes
    <3>5. Len(o.out.buffer_) <= BlockSize
      BY <1>0, <2>1, <3>2
    <3>6. o.ok => o.out.failed_ = x.failed_
      BY <3>2, <3>3
    <3> QED
      BY <3>2, <3>4, <3>5, <3>6
  <2>2. CASE Len(x.buffer_) # BlockSize
    <3>1. o = [ok |-> TRUE, file |-> file, out |-> x]
      BY <1>1, <2>2, Zenon DEF Written
    <3>2. o.ok = TRUE /\ o.file = file /\ o.out = x
      BY <3>1
    <3> QED
      BY <3>2
  <2> QED
    BY <2>1, <2>2
<1> DEFINE b == o.out.buffer_
           size == BlockSize - Len(b)
           g == garbage(size)
<1>3. b \in Bytes /\ Len(b) \in Nat /\ size \in 0 .. BlockSize
  BY <1>0, <1>2 DEF OutStreams, Bytes
<1>4. CASE ~o.ok
  <2> HIDE DEF garbage
  <2>1. more(o) = o.out
    BY <1>2, <1>4 DEF OutStreams
  <2>2. w.ok = FALSE /\ w.file = o.file /\ w.size = 0 /\ w.out = o.out
    BY <1>1, <1>2, <1>4, <2>1
  <2> HIDE DEF b, size, g, more
  <2>3. w.size \in 0 .. BlockSize
    BY <1>0, <2>2
  <2> QED
    BY <1>2, <1>4, <2>2, <2>3
<1>5. CASE o.ok
  <2>1. g \in Seq(Nat) /\ Len(g) = size
    <3> HIDE DEF size
    <3>1. Garbage \in Nat
      BY DEF Garbage
    <3>2. g \in [1 .. size -> Nat] /\ size \in Nat
      BY <1>3, <3>1
    <3> HIDE DEF garbage
    <3> QED
      BY <3>2
  <2> HIDE DEF garbage
  <2>2. b \o g \in Bytes /\ Len(b \o g) = BlockSize
    <3>0. b \in Seq(Nat) /\ g \in Seq(Nat)
      BY <1>3, <2>1 DEF Bytes
    <3>1. Len(b \o g) = Len(b) + size
      <4>1. Len(b \o g) = Len(b) + Len(g)
        BY <3>0, ConcatProperties
      <4> QED
        BY <2>1, <4>1
    <3>2. Len(b) + size = BlockSize
      BY <1>0, <1>3
    <3> QED
      BY <1>3, <2>1, <3>1, <3>2, ConcatProperties DEF Bytes
  <2>3. Front(b \o g, Len(b)) = b
    <3> HIDE DEF g, size
    <3>0. Len(b) <= BlockSize
      BY <1>2
    <3> HIDE DEF b
    <3>1. Len(b) \in 0 .. Len(b \o g)
      BY <1>0, <1>3, <2>2, <3>0
    <3> DEFINE f == Front(b \o g, Len(b))
    <3>2. /\ f \in Seq(Nat) /\ Len(f) = Len(b)
          /\ \A i \in 1 .. Len(b) : f[i] = (b \o g)[i]
      BY <2>2, <3>1, FrontOf DEF Bytes
    <3>3. \A i \in 1 .. Len(b) : (b \o g)[i] = b[i]
      BY <1>3, <2>1, ConcatProperties DEF Bytes
    <3> HIDE DEF f
    <3>4. f = b
      BY <1>3, <3>2, <3>3, SeqEqual DEF Bytes
    <3> QED
      BY <3>4 DEF f
  <2>4. more(o) = [o.out EXCEPT !.buffer_ = b \o g]
    BY <1>5
  <2>5. /\ w.ok = o.ok /\ w.file = o.file /\ w.size = size
        /\ w.out = [o.out EXCEPT !.buffer_ = b \o g]
    BY <1>1, <1>5, <2>4
  <2>6. BlockSize - w.size = Len(b)
    BY <1>0, <1>3, <2>5
  <2> HIDE DEF g, size, more
  <2>7. /\ w.out \in OutStreams /\ w.out.buffer_ = b \o g
        /\ w.out.sound = o.out.sound /\ w.out.failed_ = o.out.failed_
    BY <1>2, <2>2, <2>5 DEF OutStreams
  <2>8. w.file \o Front(w.out.buffer_, BlockSize - w.size) = file \o x.buffer_
    BY <1>2, <1>5, <2>3, <2>5, <2>6, <2>7
  <2>9. w.size \in 0 .. BlockSize /\ Len(w.out.buffer_) <= BlockSize
        /\ Len(w.out.buffer_) = BlockSize
    BY <1>0, <1>3, <2>2, <2>5, <2>7
  <2> QED
    BY <1>2, <1>5, <2>5, <2>7, <2>8, <2>9
<1> QED
  BY <1>2, <1>4, <1>5

LEMMA WriterInit == OutInit => WriterInv
<1> SUFFICES ASSUME OutInit PROVE WriterInv
  OBVIOUS
<1>0. <<>> \in Bytes /\ Len(<<>>) = 0 /\ <<>> \o <<>> = <<>>
  BY DEF Bytes
<1>1. /\ out.failed_ = FALSE /\ out.position_ = 0 /\ out.buffer_ = <<>>
      /\ out.sound = TRUE /\ out \in OutStreams
  BY <1>0 DEF OutInit, FileOutputStream, OutStreams
<1>2. /\ cos.open = TRUE /\ cos.buffer_size_ = 0 /\ cos.item = 1
      /\ cos.rest = <<>> /\ cos.writing = FALSE /\ cos \in CodedStreams
  <2>1. cos = [open |-> TRUE, buffer_size_ |-> 0, total_bytes_ |-> 0,
               item |-> 1, rest |-> <<>>, writing |-> FALSE]
    BY DEF OutInit, NoCoded
  <2> QED
    BY <1>0, <2>1 DEF CodedStreams
<1>3. file = <<>> /\ accepted = <<>> /\ closed = "open"
  BY DEF OutInit
<1>4. Kept = <<>> /\ BeingWritten = <<>>
  <2>1. Front(<<>>, 0) = <<>>
    BY <1>0, FrontWhole DEF Bytes
  <2> QED
    BY <1>0, <1>1, <1>2, <2>1 DEF Kept, BeingWritten
<1>5. NothingLost /\ CloseTellsTheTruth
  BY <1>0, <1>2, <1>3, <1>4 DEF NothingLost, CloseTellsTheTruth
<1>6. WriterTypes /\ WriterBuffer /\ WriterStage
  BY <1>0, <1>1, <1>2, <1>3, BlockSizeAssumption
  DEF WriterTypes, WriterBuffer, WriterStage
<1> QED
  BY <1>5, <1>6 DEF WriterInv

\* What WriterInv says about the fields.
LEMMA WriterFields ==
  ASSUME WriterInv
  PROVE  /\ out.failed_ \in BOOLEAN /\ out.buffer_ \in Bytes
         /\ Len(out.buffer_) \in Nat
         /\ cos.open \in BOOLEAN /\ cos.writing \in BOOLEAN
         /\ cos.buffer_size_ \in Nat /\ cos.total_bytes_ \in Nat
         /\ cos.item \in Nat \ {0} /\ cos.rest \in Bytes
         /\ Len(cos.rest) \in Nat
         /\ Kept \in Bytes /\ BeingWritten \in Bytes
         /\ Len(Kept) = Len(out.buffer_) - cos.buffer_size_
<1>1. /\ out.failed_ \in BOOLEAN /\ out.buffer_ \in Bytes
      /\ cos.open \in BOOLEAN /\ cos.writing \in BOOLEAN
      /\ cos.buffer_size_ \in Nat /\ cos.total_bytes_ \in Nat
      /\ cos.item \in Nat \ {0} /\ cos.rest \in Bytes
  BY DEF WriterInv, WriterTypes, OutStreams, CodedStreams
<1>2. Len(out.buffer_) \in Nat /\ Len(cos.rest) \in Nat
  BY <1>1 DEF Bytes
<1>3. Len(out.buffer_) - cos.buffer_size_ \in 0 .. Len(out.buffer_)
  BY <1>1, <1>2 DEF WriterInv, WriterBuffer
<1>4. Kept \in Bytes /\ Len(Kept) = Len(out.buffer_) - cos.buffer_size_
  BY <1>1, <1>3, FrontOf DEF Kept, Bytes
<1>5. BeingWritten \in Bytes
  <2>1. CASE cos.writing
    <3>1. cos.item \in 1 .. Len(Script) /\ Script \in Seq(Bytes)
      BY <1>1, <2>1, ScriptAssumption, LenProperties
      DEF WriterInv, WriterStage, Bytes
    <3>2. Script[cos.item] \in Bytes
      BY <3>1, ElementOfSeq
    <3> QED
      BY <2>1, <3>2 DEF BeingWritten
  <2>2. CASE ~cos.writing
    BY <2>2 DEF BeingWritten, Bytes
  <2> QED
    BY <1>1, <2>1, <2>2
<1> QED
  BY <1>1, <1>2, <1>4, <1>5

\* The loop of WriteRaw copies n bytes into the buffer: they follow those it
\* holds.
LEMMA StoringBytes ==
  ASSUME WriterInv, NEW n \in 0 .. Len(cos.rest), n <= cos.buffer_size_
  PROVE  /\ Stored(n) \in OutStreams /\ Stored(n).sound
         /\ Stored(n).failed_ = out.failed_
         /\ Stored(n).buffer_ \in Bytes
         /\ Len(Stored(n).buffer_) = Len(out.buffer_)
         /\ Front(Stored(n).buffer_, Len(out.buffer_) - (cos.buffer_size_ - n))
              = Kept \o Front(cos.rest, n)
<1> DEFINE s == out.buffer_
           r == cos.rest
           at == Len(s) - cos.buffer_size_
           b == Overwritten(s, r, at, n)
<1>1. /\ s \in Bytes /\ r \in Bytes /\ Len(s) \in Nat /\ Len(r) \in Nat
      /\ cos.buffer_size_ \in Nat /\ cos.buffer_size_ <= Len(s)
  BY WriterFields DEF WriterInv, WriterBuffer
<1>2. /\ at \in 0 .. Len(s) /\ n \in Nat /\ at + n <= Len(s)
      /\ at + n = Len(s) - (cos.buffer_size_ - n)
  BY <1>1
<1>3. /\ b \in Bytes /\ Len(b) = Len(s)
      /\ Front(b, at + n) = Front(s, at) \o Front(r, n)
  <2>1. s \in Seq(Nat) /\ r \in Seq(Nat)
    BY <1>1 DEF Bytes
  <2> HIDE DEF s, r, at
  <2>2. n \in 0 .. Len(r)
    BY DEF r
  <2> QED
    BY <1>2, <2>1, <2>2, StoredBytes DEF Bytes
<1>4. Stored(n) = [out EXCEPT !.buffer_ = b]
  BY DEF Stored, Overwritten
<1> HIDE DEF b
<1>5. /\ Stored(n) \in OutStreams /\ Stored(n).sound
      /\ Stored(n).failed_ = out.failed_ /\ Stored(n).buffer_ = b
  BY <1>3, <1>4 DEF WriterInv, WriterTypes, OutStreams
<1>6. Front(s, at) = Kept
  BY DEF Kept
<1> QED
  BY <1>2, <1>3, <1>5, <1>6

LEMMA WriteKeeps == ASSUME WriterInv, Write PROVE WriterInv'
<1>1. cos' = [cos EXCEPT !.writing = TRUE, !.rest = Script[cos.item]]
      /\ cos.open /\ ~cos.writing /\ cos.item <= Len(Script)
      /\ UNCHANGED <<file, out, accepted, closed>>
  BY DEF Write
<1>2. Script[cos.item] \in Bytes
  <2>1. cos.item \in 1 .. Len(Script) /\ Script \in Seq(Bytes)
    BY <1>1, WriterFields, ScriptAssumption, LenProperties DEF Bytes
  <2> QED
    BY <2>1, ElementOfSeq
<1>3. /\ cos' \in CodedStreams /\ cos'.writing = TRUE
      /\ cos'.rest = Script[cos.item] /\ cos'.item = cos.item
      /\ cos'.open = cos.open /\ cos'.buffer_size_ = cos.buffer_size_
  BY <1>1, <1>2 DEF WriterInv, WriterTypes, CodedStreams
<1>4. Kept' = Kept
  BY <1>1, <1>3 DEF Kept
<1>5. BeingWritten' = Script[cos.item]
  BY <1>3 DEF BeingWritten
<1>6. NothingLost'
  <2> SUFFICES ASSUME closed = "open", ~out.failed_
               PROVE  (file \o Kept) \o Script[cos.item]
                        = accepted \o Script[cos.item]
    BY <1>1, <1>3, <1>4, <1>5 DEF NothingLost
  <2>1. (file \o Kept) \o <<>> = accepted \o <<>>
    BY <1>1 DEF WriterInv, NothingLost, WriterStage, BeingWritten
  <2>2. file \o Kept = accepted
    <3>1. file \o Kept \in Bytes /\ accepted \in Bytes
      BY WriterFields, ConcatProperties DEF WriterInv, WriterTypes, Bytes
    <3> QED
      BY <2>1, <3>1, ConcatEmptySeq DEF Bytes
  <2> QED
    BY <2>2
<1>7. (WriterTypes /\ WriterBuffer /\ WriterStage /\ CloseTellsTheTruth)'
  BY <1>1, <1>3
  DEF WriterInv, WriterTypes, WriterBuffer, WriterStage, CloseTellsTheTruth
<1> QED
  BY <1>6, <1>7 DEF WriterInv

\* The rest fits into the buffer.
LEMMA WriteRawEndKeeps ==
  ASSUME WriterInv, WriteRaw, cos.buffer_size_ >= Len(cos.rest)
  PROVE  WriterInv'
<1> DEFINE n == Len(cos.rest)
           x == Stored(n)
<1>0. n \in 0 .. Len(cos.rest) /\ n <= cos.buffer_size_
  BY WriterFields
<1>1. /\ out' = x
      /\ cos' = [cos EXCEPT !.writing = FALSE, !.rest = <<>>,
                            !.buffer_size_ = @ - n, !.item = @ + 1]
      /\ accepted' = accepted \o Script[cos.item]
      /\ UNCHANGED file
      /\ cos.writing /\ UNCHANGED closed
  <2>1. ~(cos.buffer_size_ < Len(cos.rest))
    BY <1>0, WriterFields
  <2> QED
    BY <2>1, Zenon DEF WriteRaw
<1> HIDE DEF n, x
<1>2. BeingWritten = Script[cos.item] /\ Script[cos.item] \in Bytes
  BY <1>1, WriterFields DEF BeingWritten
<1>3. /\ x \in OutStreams /\ x.sound /\ x.failed_ = out.failed_
      /\ x.buffer_ \in Bytes /\ Len(x.buffer_) = Len(out.buffer_)
      /\ Front(x.buffer_, Len(out.buffer_) - (cos.buffer_size_ - n))
           = Kept \o Front(cos.rest, n)
  <2>1. n \in 0 .. Len(cos.rest)
    BY <1>0
  <2> QED
    BY <1>0, <2>1, StoringBytes DEF x
<1>4. n \in Nat /\ cos.buffer_size_ - n \in Nat /\ cos.item + 1 \in Nat \ {0}
      /\ <<>> \in Bytes
  BY <1>0, WriterFields, EmptyBytes DEF n
<1>5. /\ cos' \in CodedStreams /\ cos'.writing = FALSE /\ cos'.rest = <<>>
      /\ cos'.open = cos.open /\ cos'.buffer_size_ = cos.buffer_size_ - n
  BY <1>1, <1>4 DEF WriterInv, WriterTypes, CodedStreams
<1>6. Kept' = Kept \o cos.rest
  <2>1. Front(cos.rest, n) = cos.rest
    BY WriterFields, FrontWhole DEF n, Bytes
  <2> QED
    BY <1>1, <1>3, <1>5, <2>1 DEF Kept
<1>7. BeingWritten' = <<>>
  BY <1>5 DEF BeingWritten
<1>8. NothingLost'
  <2> SUFFICES ASSUME closed = "open", ~out.failed_
               PROVE  (file \o (Kept \o cos.rest)) \o <<>>
                        = (accepted \o Script[cos.item]) \o <<>>
    BY <1>1, <1>3, <1>5, <1>6, <1>7 DEF NothingLost
  <2>1. (file \o Kept) \o cos.rest = accepted \o Script[cos.item]
    BY <1>2 DEF WriterInv, NothingLost
  <2>2. file \o (Kept \o cos.rest) = (file \o Kept) \o cos.rest
    <3>1. file \in Bytes /\ Kept \in Bytes /\ cos.rest \in Bytes
      BY WriterFields DEF WriterInv, WriterTypes
    <3> QED
      BY <3>1, Concatenation, Zenon
  <2> QED
    BY <2>1, <2>2
<1>9. accepted' \in Bytes
  BY <1>1, <1>2, ConcatProperties DEF WriterInv, WriterTypes, Bytes
<1>10. closed # "ok"
  BY <1>1, WriterFields DEF WriterInv, WriterStage
<1>11. (WriterTypes /\ WriterBuffer /\ WriterStage /\ CloseTellsTheTruth)'
  <2>1. WriterTypes'
    BY <1>1, <1>3, <1>5, <1>9 DEF WriterInv, WriterTypes
  <2>2. WriterBuffer'
    <3>1. /\ cos.buffer_size_ \in Nat /\ n \in Nat /\ Len(out.buffer_) \in Nat
          /\ cos'.buffer_size_ = cos.buffer_size_ - n /\ Len(out'.buffer_) = Len(out.buffer_)
      BY <1>1, <1>3, <1>4, <1>5, WriterFields
    <3> QED
      BY <3>1 DEF WriterInv, WriterBuffer
  <2>3. WriterStage'
    BY <1>1, <1>5, WriterFields DEF WriterInv, WriterStage
  <2>4. CloseTellsTheTruth'
    BY <1>1, <1>10 DEF CloseTellsTheTruth
  <2> QED
    BY <2>1, <2>2, <2>3, <2>4
<1> QED
  BY <1>8, <1>11 DEF WriterInv

\* The rest does not fit: the buffer is filled and the next one asked for.
LEMMA WriteRawTurnKeeps ==
  ASSUME WriterInv, WriteRaw, cos.buffer_size_ < Len(cos.rest)
  PROVE  WriterInv'
<1> DEFINE n == cos.buffer_size_
           x == Stored(n)
           rest == Drop(cos.rest, n)
<1>0. n \in 0 .. Len(cos.rest) /\ n <= cos.buffer_size_ /\ n \in Nat
  BY WriterFields
<1>b. ~(cos.buffer_size_ >= Len(cos.rest))
  BY WriterFields
<1>1. PICK o \in OutNext(x) :
      /\ file' = o.file /\ out' = o.out
      /\ cos' = [cos EXCEPT !.writing = o.ok,
                            !.rest = IF o.ok THEN Drop(@, n) ELSE <<>>,
                            !.item = IF o.ok THEN @ ELSE @ + 1,
                            !.buffer_size_ = o.size,
                            !.total_bytes_ = @ + o.size]
  BY <1>b, Zenon DEF WriteRaw
<1>a. cos.writing /\ UNCHANGED closed /\ UNCHANGED accepted
  BY <1>b, Zenon DEF WriteRaw
<1>3. /\ x \in OutStreams /\ x.sound /\ x.failed_ = out.failed_
      /\ x.buffer_ \in Bytes /\ Len(x.buffer_) = Len(out.buffer_)
      /\ Front(x.buffer_, Len(out.buffer_) - (cos.buffer_size_ - n))
           = Kept \o Front(cos.rest, n)
  <2> HIDE DEF n
  <2> QED
    BY <1>0, StoringBytes
<1>4. x.buffer_ = Kept \o Front(cos.rest, n)
  <2>1. Len(out.buffer_) - (cos.buffer_size_ - n) = Len(x.buffer_)
    <3> HIDE DEF x
    <3> QED
      BY <1>3, WriterFields
  <2>2. Front(x.buffer_, Len(x.buffer_)) = x.buffer_
    BY <1>3, FrontWhole DEF Bytes
  <2> QED
    BY <1>3, <2>1, <2>2, Zenon
<1> HIDE DEF x
<1>5. /\ o.ok \in BOOLEAN /\ o.file \in Bytes /\ o.size \in 0 .. BlockSize
      /\ o.out \in OutStreams /\ o.out.sound = x.sound
      /\ Len(o.out.buffer_) <= BlockSize
      /\ o.ok => Len(o.out.buffer_) = BlockSize
      /\ ~o.ok => o.size = 0 /\ o.out.failed_
      /\ o.ok /\ ~o.out.failed_ =>
           /\ ~x.failed_
           /\ o.file \o Front(o.out.buffer_, BlockSize - o.size)
                = file \o x.buffer_
  <2>1. file \in Bytes /\ Len(x.buffer_) <= BlockSize
    BY <1>3 DEF WriterInv, WriterTypes, WriterBuffer
  <2> QED
    BY <1>3, <2>1, OutNextBytes
<1>6. rest \in Bytes /\ Front(cos.rest, n) \in Bytes
      /\ Front(cos.rest, n) \o rest = cos.rest
  <2> HIDE DEF n
  <2> QED
    BY <1>0, WriterFields, DropOf, FrontOf, FrontAndDrop DEF Bytes
<1> HIDE DEF n, rest
<1>7. /\ cos' \in CodedStreams /\ cos'.writing = o.ok
      /\ cos'.rest = (IF o.ok THEN rest ELSE <<>>)
      /\ cos'.item = (IF o.ok THEN cos.item ELSE cos.item + 1)
      /\ cos'.open = cos.open /\ cos'.buffer_size_ = o.size
  <2>1. /\ o.size \in Nat /\ cos.total_bytes_ + o.size \in Nat
        /\ cos.item + 1 \in Nat \ {0} /\ <<>> \in Bytes
    <3>1. o.size \in 0 .. BlockSize
      BY <1>5
    <3>2. o.size \in Nat
      BY <3>1, BlockSizeAssumption
    <3>3. cos.total_bytes_ \in Nat /\ cos.item \in Nat \ {0}
      BY WriterFields
    <3> QED
      BY <3>2, <3>3, EmptyBytes
  <2>2. Drop(cos.rest, n) = rest
    BY DEF rest
  <2> QED
    BY <1>1, <1>5, <1>6, <2>1, <2>2 DEF WriterInv, WriterTypes, CodedStreams
<1>8. closed = "open" /\ cos.open
  BY <1>a, WriterFields DEF WriterInv, WriterStage
<1>9. NothingLost'
  <2> SUFFICES ASSUME o.ok, ~o.out.failed_
               PROVE  (file' \o Kept') \o cos'.rest = accepted' \o BeingWritten'
    <3>1. ~o.ok => o.out.failed_
      BY <1>5
    <3> QED
      BY <1>1, <1>5, <3>1 DEF NothingLost
  <2>0. ~out.failed_
    BY <1>3, <1>5
  <2>1. (file \o Kept) \o cos.rest = accepted \o BeingWritten
    BY <1>8, <2>0 DEF WriterInv, NothingLost
  <2>2. Kept' = Front(o.out.buffer_, BlockSize - o.size)
    BY <1>1, <1>5, <1>7 DEF Kept
  <2>3. file' \o Kept' = file \o (Kept \o Front(cos.rest, n))
    BY <1>1, <1>4, <1>5, <2>2
  <2>4. BeingWritten' = BeingWritten
    BY <1>7, <1>a DEF BeingWritten
  <2> DEFINE k == Kept
             f == Front(cos.rest, n)
  <2>5. file \in Bytes /\ k \in Bytes /\ f \in Bytes /\ rest \in Bytes
        /\ k \o f \in Bytes /\ f \o rest \in Bytes
    BY <1>6, WriterFields, ConcatProperties DEF WriterInv, WriterTypes, Bytes
  <2>6. f \o rest = cos.rest
    BY <1>6
  <2> HIDE DEF k, f
  <2>7. (file \o (k \o f)) \o rest = (file \o k) \o (f \o rest)
    <3> DEFINE Cat(p, q) == p \o q
    <3>1. \A p, q, r, t \in Bytes : Cat(Cat(p, Cat(q, r)), t) = Cat(Cat(p, q), Cat(r, t))
      BY MiddleConcatenation
    <3> HIDE DEF Cat
    <3>2. Cat(Cat(file, Cat(k, f)), rest) = Cat(Cat(file, k), Cat(f, rest))
      BY <2>5, <3>1
    <3> QED
      BY <3>2 DEF Cat
  <2>8. file' \o Kept' = file \o (k \o f) /\ (file \o k) \o cos.rest = accepted \o BeingWritten
    BY <2>1, <2>3 DEF k, f
  <2>9. cos'.rest = rest
    BY <1>7
  <2> QED
    BY <1>a, <2>4, <2>6, <2>7, <2>8, <2>9
<1>10. (WriterTypes /\ WriterBuffer /\ WriterStage /\ CloseTellsTheTruth)'
  <2>1. WriterTypes'
    BY <1>1, <1>3, <1>5, <1>7, <1>a DEF WriterInv, WriterTypes
  <2>2. WriterBuffer'
    BY <1>1, <1>5, <1>7, BlockSizeAssumption DEF WriterBuffer, OutStreams, Bytes
  <2>3. WriterStage'
    BY <1>5, <1>7, <1>8, <1>a DEF WriterInv, WriterStage
  <2>4. CloseTellsTheTruth'
    BY <1>8, <1>a DEF CloseTellsTheTruth
  <2> QED
    BY <2>1, <2>2, <2>3, <2>4
<1> QED
  BY <1>9, <1>10 DEF WriterInv

\* The destructor cuts the buffer down to what the writer put into it.
LEMMA DestroyCodedKeeps == ASSUME WriterInv, DestroyCoded PROVE WriterInv'
<1> DEFINE n == cos.buffer_size_
           s == out.buffer_
<1>1. /\ cos.open /\ ~cos.writing /\ UNCHANGED <<file, accepted, closed>>
      /\ cos' = [cos EXCEPT !.open = FALSE, !.buffer_size_ = 0]
      /\ out' = IF n > 0 THEN OutBackUp(out, n) ELSE out
  BY DEF DestroyCoded
<1>2. /\ s \in Bytes /\ Len(s) \in Nat /\ n \in Nat /\ n <= Len(s)
      /\ Len(s) <= BlockSize /\ (n > 0 => Len(s) = BlockSize)
  BY WriterFields DEF WriterInv, WriterBuffer
<1>3. Len(s) - n \in 0 .. Len(s) /\ Greatest(0, Len(s) - n) = Len(s) - n
      /\ n \in 0 .. Len(s)
  BY <1>2 DEF Greatest
<1>4. /\ Kept \in Bytes /\ Len(Kept) = Len(s) - n
      /\ Kept = Front(s, Len(s) - n)
  BY WriterFields DEF Kept
<1>5. /\ out' \in OutStreams /\ out'.sound /\ out'.failed_ = out.failed_
      /\ out'.buffer_ = Kept
  <2>1. CASE n > 0
    <3>1. out' = OutBackUp(out, n)
      BY <1>1, <2>1
    <3>2. out' = [out EXCEPT !.buffer_ = Kept,
                     !.sound = @ /\ Len(s) = BlockSize /\ n \in 0 .. Len(s)]
      BY <1>3, <1>4, <3>1, Zenon DEF OutBackUp
    <3>3. out' = [out EXCEPT !.buffer_ = Kept, !.sound = TRUE]
      <4>1. (out.sound /\ Len(s) = BlockSize /\ n \in 0 .. Len(s)) = TRUE
        BY <1>2, <1>3, <2>1 DEF WriterInv, WriterTypes, OutStreams
      <4> QED
        BY <3>2, <4>1
    <3> HIDE DEF n, s
    <3> QED
      BY <1>4, <3>3 DEF WriterInv, WriterTypes, OutStreams
  <2>2. CASE ~(n > 0)
    <3>1. out' = out /\ n = 0
      BY <1>1, <1>2, <2>2
    <3>2. Len(s) - n = Len(s)
      BY <1>2, <3>1
    <3>3. Kept = s
      BY <1>2, <1>4, <3>2, FrontWhole DEF Bytes
    <3> QED
      BY <3>1, <3>3 DEF WriterInv, WriterTypes
  <2> QED
    BY <2>1, <2>2
<1> HIDE DEF n, s
<1>6. /\ cos' \in CodedStreams /\ cos'.open = FALSE /\ cos'.writing = FALSE
      /\ cos'.buffer_size_ = 0 /\ cos'.rest = cos.rest
      /\ cos.writing = FALSE
  BY <1>1 DEF WriterInv, WriterTypes, CodedStreams
<1>7. Kept' = Kept
  <2>1. Len(Kept) - 0 = Len(Kept)
    BY <1>2, <1>4
  <2>3. Front(Kept, Len(Kept)) = Kept
    BY <1>4, FrontWhole DEF Bytes
  <2>2. Kept' = Front(Kept, Len(Kept) - 0)
    BY <1>5, <1>6 DEF Kept
  <2> QED
    BY <2>1, <2>2, <2>3, Zenon
<1>8. BeingWritten' = BeingWritten
  BY <1>6 DEF BeingWritten
<1>9. WriterTypes' /\ CloseTellsTheTruth'
  BY <1>1, <1>5, <1>6 DEF WriterInv, WriterTypes, CloseTellsTheTruth
<1>10. WriterBuffer' /\ WriterStage'
  <2>1. Len(Kept) \in Nat /\ Len(Kept) <= Len(s)
    BY <1>2, <1>4
  <2> QED
    BY <1>1, <1>2, <1>5, <1>6, <2>1
    DEF WriterInv, WriterBuffer, WriterStage
<1>11. NothingLost'
  BY <1>1, <1>5, <1>6, <1>7, <1>8 DEF WriterInv, NothingLost
<1> QED
  BY <1>9, <1>10, <1>11 DEF WriterInv

\* Close() succeeds only when its flush does, and no write failed before.
LEMMA CloseKeeps == ASSUME WriterInv, Close PROVE WriterInv'
<1>1. PICK o \in WriteBuffer(out), ok \in {TRUE, ~Errors} :
        /\ file' = o.file
        /\ out' = [o.out EXCEPT !.is_closed_ = TRUE]
        /\ closed' = IF o.ok /\ ok THEN "ok" ELSE "failed"
  BY DEF Close
<1>2. ~cos.open /\ closed = "open" /\ cos' = cos /\ accepted' = accepted
  BY DEF Close
<1>3. /\ o.ok \in BOOLEAN /\ o.file \in Bytes
      /\ o.out \in OutStreams /\ o.out.sound = out.sound
      /\ o.ok => /\ ~out.failed_ /\ ~o.out.failed_
                 /\ o.file = file \o out.buffer_ /\ o.out.buffer_ = <<>>
      /\ ~o.ok => /\ o.out.failed_
                  /\ o.out.buffer_ = <<>> \/ o.out.buffer_ = out.buffer_
  BY WriteBufferBytes DEF WriterInv, WriterTypes
<1>4. /\ out' \in OutStreams /\ out'.sound = out.sound
      /\ out'.buffer_ = o.out.buffer_ /\ out'.failed_ = o.out.failed_
  BY <1>1, <1>3 DEF OutStreams
<1>5. cos.buffer_size_ = 0 /\ cos.writing = FALSE /\ cos.rest = <<>>
  BY <1>2, WriterFields DEF WriterInv, WriterStage
<1>6. WriterTypes'
  BY <1>1, <1>2, <1>3, <1>4 DEF WriterInv, WriterTypes
<1>7. WriterBuffer' /\ WriterStage'
  <2>1. Len(<<>>) = 0 /\ 0 <= BlockSize
    BY BlockSizeAssumption
  <2>2. Len(out'.buffer_) <= BlockSize /\ Len(out'.buffer_) >= 0
    BY <1>3, <1>4, <2>1, WriterFields DEF WriterInv, WriterBuffer
  <2> QED
    BY <1>2, <1>5, <2>2 DEF WriterInv, WriterBuffer, WriterStage
<1>8. NothingLost'
  BY <1>1 DEF NothingLost
<1>9. CloseTellsTheTruth'
  <2> SUFFICES ASSUME o.ok PROVE o.file = accepted
    BY <1>1, <1>2 DEF CloseTellsTheTruth
  <2>1. (file \o Kept) \o <<>> = accepted \o <<>>
    BY <1>2, <1>3, <1>5 DEF WriterInv, NothingLost, BeingWritten
  <2>2. Kept = out.buffer_
    <3>1. Len(out.buffer_) - cos.buffer_size_ = Len(out.buffer_)
      BY <1>5, WriterFields
    <3> QED
      BY <3>1, WriterFields, FrontWhole DEF Kept, Bytes
  <2>3. file \o Kept \in Bytes /\ accepted \in Bytes
    BY WriterFields, ConcatProperties DEF WriterInv, WriterTypes, Bytes
  <2>4. file \o Kept = accepted
    BY <2>1, <2>3, ConcatEmptySeq DEF Bytes
  <2> QED
    BY <1>3, <2>2, <2>4
<1> QED
  BY <1>6, <1>7, <1>8, <1>9 DEF WriterInv

LEMMA DeleteKeeps == ASSUME WriterInv, Delete PROVE WriterInv'
<1>0. <<>> \in Bytes /\ Len(<<>>) = 0
  BY DEF Bytes
<1>1. /\ closed' = "gone" /\ accepted' = <<>> /\ file' = file
      /\ out' = FileOutputStream /\ cos' = NoCoded
  BY DEF Delete
<1>2. /\ FileOutputStream \in OutStreams /\ FileOutputStream.sound = TRUE
      /\ FileOutputStream.buffer_ = <<>>
  BY <1>0 DEF FileOutputStream, OutStreams
<1>3. /\ NoCoded \in CodedStreams /\ NoCoded.open = FALSE
      /\ NoCoded.writing = FALSE /\ NoCoded.rest = <<>>
      /\ NoCoded.buffer_size_ = 0
  BY <1>0 DEF NoCoded, CodedStreams
<1>4. WriterTypes' /\ NothingLost' /\ CloseTellsTheTruth'
  BY <1>0, <1>1, <1>2, <1>3
  DEF WriterInv, WriterTypes, NothingLost, CloseTellsTheTruth
<1>5. WriterBuffer' /\ WriterStage'
  BY <1>0, <1>1, <1>2, <1>3, BlockSizeAssumption
  DEF WriterBuffer, WriterStage
<1> QED
  BY <1>4, <1>5 DEF WriterInv

LEMMA WriterStep == ASSUME WriterInv, [Next]_vars PROVE WriterInv'
<1>1. CASE Write
  BY <1>1, WriteKeeps
<1>2. CASE WriteRaw
  <2>1. cos.buffer_size_ >= Len(cos.rest) \/ cos.buffer_size_ < Len(cos.rest)
    BY WriterFields
  <2> QED
    BY <1>2, <2>1, WriteRawEndKeeps, WriteRawTurnKeeps
<1>3. CASE DestroyCoded
  BY <1>3, DestroyCodedKeeps
<1>4. CASE Close
  BY <1>4, CloseKeeps
<1>5. CASE Delete
  BY <1>5, DeleteKeeps
<1>6. CASE UNCHANGED outVars
  <2>1. file' = file /\ out' = out /\ cos' = cos /\ accepted' = accepted
        /\ closed' = closed
    BY <1>6 DEF outVars
  <2> QED
    BY <2>1
    DEF WriterInv, WriterTypes, WriterBuffer, WriterStage, NothingLost,
        CloseTellsTheTruth, Kept, BeingWritten
<1> QED
  BY <1>1, <1>2, <1>3, <1>4, <1>5, <1>6 DEF Next, WriterNext, vars

\* A writer loses no byte: as long as no write has failed, the file, the used
\* part of the buffer and what is left of the call under way hold the bytes of
\* the calls that returned true and of this one (CodedOutputStream::WriteRaw,
\* CopyingOutputStreamAdaptor::Next, BackUp and WriteBuffer).
THEOREM WriterInvariant == Spec => []WriterInv
<1>1. Init => WriterInv
  BY WriterInit DEF Init
<1> QED
  BY <1>1, WriterStep, PTL DEF Spec

\* When FileOutputStream::Close() succeeds, the file holds what the calls that
\* returned true wrote, in order, for every script of writes and every size of
\* the block; a write that failed on the way makes Close() fail, although the
\* adaptor handed out another buffer after it.
THEOREM ClosedMeansWritten == Spec => []CloseTellsTheTruth
<1>1. WriterInv => CloseTellsTheTruth
  BY DEF WriterInv
<1> QED
  BY <1>1, WriterInvariant, PTL
-----------------------------------------------------------------------------
(* The input.  What Next() returned and nobody has given back is the end of   *)
(* the last block: first the bytes in the hands of the reader, then those     *)
(* that LimitingInputStream hides behind its limit.                           *)

InStreams ==
  [seeks : BOOLEAN, short : BOOLEAN, offset : Nat, broken : BOOLEAN,
   previous_seek_failed_ : BOOLEAN, failed_ : BOOLEAN, position_ : Nat,
   buffer_ : Bytes, backup_bytes_ : Nat, limited : BOOLEAN, limit_ : Int,
   sound : BOOLEAN]

Hidden(i) == IF i.limit_ < 0 THEN -i.limit_ ELSE 0

\* The block in the buffer is what precedes the offset in the file.
Loaded(i) ==
  /\ Len(i.buffer_) <= i.offset /\ i.offset <= Len(file)
  /\ \A j \in 1 .. Len(i.buffer_) :
       i.buffer_[j] = file[i.offset - Len(i.buffer_) + j]

\* The reader holds n bytes of the last block.
InputOK(i, n) ==
  /\ i \in InStreams /\ i.sound /\ i.position_ = i.offset
  /\ i.seeks => ~i.previous_seek_failed_
  /\ ~i.limited => i.limit_ = 0
  /\ i.backup_bytes_ <= Len(i.buffer_)
  /\ Hidden(i) + n <= Len(i.buffer_)
  /\ Hidden(i) + n > 0 => i.backup_bytes_ = 0
  /\ i.failed_ => Hidden(i) + n = 0 /\ i.backup_bytes_ = 0
  /\ Hidden(i) + n + i.backup_bytes_ > 0 => Loaded(i)

\* Where the LimitingInputStream ends.
EndOf(i) == i.position_ - i.backup_bytes_ + i.limit_

\* Nothing more comes out of the input.
Dry(i) ==
  \/ i.failed_
  \/ i.limited /\ i.limit_ <= 0
  \/ /\ ~i.seeks /\ i.backup_bytes_ = 0
     /\ i.broken \/ i.offset >= Len(file)

\* A skip of n bytes goes no further than that: one read() is asked for them.
ExactBy(i, n) == i.seeks \/ (~i.short /\ n <= JunkSize)

\* No skip goes further than it was asked to.
Exact(i) == i.seeks \/ (~i.short /\ \A n \in Sizes : n <= JunkSize)
-----------------------------------------------------------------------------
(* The reader *)

CodedInputs ==
  [open : BOOLEAN, base : Nat, buffer_ : Bytes, buffer_size_ : Nat,
   total_bytes_read_ : Nat, overflow_bytes_ : Nat,
   legitimate_message_end_ : BOOLEAN, current_limit_ : Nat,
   buffer_size_after_limit_ : Nat, total_bytes_limit_ : Nat]

\* The counts add up, and no limit has been passed.
CountsOK(c) ==
  /\ c \in CodedInputs
  /\ Len(c.buffer_)
       = c.buffer_size_ + c.buffer_size_after_limit_ + c.overflow_bytes_
  /\ c.total_bytes_read_ <= IntMax
  /\ c.current_limit_ <= IntMax /\ c.total_bytes_limit_ < IntMax
  /\ c.overflow_bytes_ > 0 => c.total_bytes_read_ = IntMax
  /\ c.buffer_size_after_limit_
       = Greatest(0, c.total_bytes_read_ - Closest(c))
  /\ Position(c) \in 0 .. Closest(c)

\* What the reader holds are the last bytes it took from the input.
Holds(c, i) ==
  \A j \in 1 .. Len(c.buffer_) :
    c.buffer_[j] = file[InByteCount(i) - Len(c.buffer_) + j]

Held(c, i) == InputOK(i, Len(c.buffer_)) /\ CountsOK(c) /\ Holds(c, i)

\* Where the reader stands in the input: Cursor, of any state.
At(c, i) == InByteCount(i) - Len(c.buffer_)

\* What the reader has counted and the input has not consumed.
Lag(c, i) ==
  c.base + c.total_bytes_read_ + c.overflow_bytes_ - InByteCount(i)

\* Limits are nested.
LimitsOK ==
  /\ limits \in Seq(0 .. IntMax)
  /\ \A j \in 1 .. Len(limits) - 1 : limits[j + 1] <= limits[j]
  /\ limits # <<>> => cis.current_limit_ <= limits[Len(limits)]

\* The call under way has got the bytes from where it began to the cursor.
CallOK ==
  \/ call = NoCall
  \/ /\ cis.open
     /\ call \in [op : {"Read", "ReadVarint"},
                  stage : {"copy", "fallback", "varint", "bytes"},
                  n : Int, got : Bytes, from : Nat]
     /\ call.op = "Read" <=> call.stage = "copy"
     /\ call.stage = "copy" =>
          Len(call.got) <= call.n /\ (call.n > 0 => Len(call.got) < call.n)
     /\ call.stage \in {"fallback", "varint"} => call.got = <<>>
     /\ call.stage = "bytes" =>
          /\ Len(call.got) <= MaxVarint
          /\ \A j \in 1 .. Len(call.got) : call.got[j] \in High
     /\ At(cis, in) = call.from + Len(call.got)
     /\ Len(call.got) > 0 => At(cis, in) <= Len(file)
     /\ \A j \in 1 .. Len(call.got) : call.got[j] = file[call.from + j]

\* Nothing is read before the file is complete.
Untouched ==
  /\ in \in {FileInputStream(d[1], d[2]) : d \in Descriptors}
  /\ cis = NoStream /\ limits = <<>> /\ call = NoCall

ReaderInv ==
  /\ closed # "gone" => Untouched
  /\ <<in.seeks, in.short>> \in Descriptors
  /\ Held(cis, in) /\ LimitsOK /\ CallOK
  /\ ~cis.open => cis = NoStream /\ limits = <<>> /\ call = NoCall

\* The stream has lost count: it has consumed less than it believes, and
\* nothing more will come.
CountOK(c, i) ==
  c.open /\ Lag(c, i) # 0 => Lag(c, i) > 0 /\ c.buffer_ = <<>> /\ Dry(i)

CursorInv == ReaderInv /\ (Exact(in) => CountOK(cis, in))
-----------------------------------------------------------------------------
(* Reading blocks *)

LEMMA InFields ==
  ASSUME NEW i \in InStreams
  PROVE  /\ i.seeks \in BOOLEAN /\ i.short \in BOOLEAN /\ i.broken \in BOOLEAN
         /\ i.previous_seek_failed_ \in BOOLEAN /\ i.failed_ \in BOOLEAN
         /\ i.limited \in BOOLEAN /\ i.sound \in BOOLEAN
         /\ i.offset \in Nat /\ i.position_ \in Nat /\ i.backup_bytes_ \in Nat
         /\ i.limit_ \in Int /\ i.buffer_ \in Bytes /\ Len(i.buffer_) \in Nat
         /\ Hidden(i) \in Nat
<1>1. /\ i.seeks \in BOOLEAN /\ i.short \in BOOLEAN /\ i.broken \in BOOLEAN
      /\ i.previous_seek_failed_ \in BOOLEAN /\ i.failed_ \in BOOLEAN
      /\ i.limited \in BOOLEAN /\ i.sound \in BOOLEAN
      /\ i.offset \in Nat /\ i.position_ \in Nat /\ i.backup_bytes_ \in Nat
      /\ i.limit_ \in Int /\ i.buffer_ \in Bytes
  BY DEF InStreams
<1>2. Len(i.buffer_) \in Nat
  BY <1>1 DEF Bytes
<1>3. Hidden(i) \in Nat
  BY <1>1 DEF Hidden
<1> QED
  BY <1>1, <1>2, <1>3

LEMMA ReadResultsOf ==
  ASSUME file \in Bytes, NEW i \in InStreams, NEW offset \in Nat,
         NEW size \in Nat \ {0}, NEW r \in ReadResults(i, offset, size)
  PROVE  /\ r \in Int /\ r >= -1 /\ r <= size
         /\ r > 0 => offset + r <= Len(file)
         /\ r = 0 => offset >= Len(file)
         /\ r >= 0 => ~i.broken
         /\ r >= 0 /\ ~i.short => r = Least(size, Greatest(0, Len(file) - offset))
<1> DEFINE left == Greatest(0, Len(file) - offset)
           most == Least(size, left)
<1>1. Len(file) \in Nat
  BY DEF Bytes
<1>2. left \in Nat /\ (left > 0 => left = Len(file) - offset)
      /\ (left = 0 => offset >= Len(file))
  BY <1>1 DEF Greatest
<1> HIDE DEF left
<1>3. most \in Nat /\ most <= size /\ most <= left /\ (most = 0 => left = 0)
  BY <1>2 DEF Least
<1>4. r \in (IF Errors THEN {-1} ELSE {})
        \cup (IF i.broken THEN {}
              ELSE IF i.short /\ most > 0 THEN 1 .. most ELSE {most})
  BY Zenon DEF ReadResults, left
<1> HIDE DEF most
<1>5. r = -1 \/ (~i.broken /\ i.short /\ most > 0 /\ r \in 1 .. most)
        \/ (~i.broken /\ r = most)
  BY <1>4
<1>6. r >= 0 /\ ~i.short => r = most
  BY <1>3, <1>5
<1> QED
  BY <1>1, <1>2, <1>3, <1>5, <1>6 DEF most, left

\* What Next() of the adaptor does to the stream.
LEMMA AdaptorNextOf ==
  ASSUME file \in Bytes, NEW i, NEW n \in Nat, InputOK(i, n), i.limit_ >= 0,
         NEW o \in AdaptorNext(i)
  PROVE  /\ o.ok \in BOOLEAN /\ o.data \in Bytes /\ o.in \in InStreams
         /\ o.in.limited = i.limited /\ o.in.limit_ = i.limit_
         /\ o.in.sound = i.sound /\ o.in.position_ = o.in.offset
         /\ o.in.seeks = i.seeks /\ o.in.short = i.short
         /\ o.in.previous_seek_failed_ = i.previous_seek_failed_
         /\ o.in.backup_bytes_ = 0
         /\ o.in.position_ = i.position_ - i.backup_bytes_ + Len(o.data)
         /\ o.ok => /\ ~i.failed_ /\ ~o.in.failed_
                    /\ Len(o.data) \in 1 .. Len(o.in.buffer_)
                    /\ Loaded(o.in)
                    /\ \A j \in 1 .. Len(o.data) : o.data[j] =
                         file[i.position_ - i.backup_bytes_ + j]
                    /\ i.seeks \/ i.backup_bytes_ > 0
                         \/ ~(i.broken \/ i.offset >= Len(file))
         /\ ~o.ok => /\ o.data = <<>>
                     /\ ~o.in.failed_ => o.in.offset >= Len(file)
                     /\ i.broken => o.in.broken
         /\ i.failed_ => o.in = i
<1> DEFINE k == i.backup_bytes_
<1>0. /\ i \in InStreams /\ i.position_ = i.offset /\ k <= Len(i.buffer_)
      /\ (k > 0 => Loaded(i)) /\ (i.failed_ => k = 0)
  BY DEF InputOK, InStreams, Hidden
<1>1. /\ i.failed_ \in BOOLEAN /\ i.offset \in Nat /\ k \in Nat
      /\ i.buffer_ \in Bytes /\ Len(i.buffer_) \in Nat /\ i.broken \in BOOLEAN
      /\ Len(file) \in Nat /\ BlockSize \in Nat \ {0}
      /\ <<>> \in Bytes /\ Len(<<>>) = 0
  BY <1>0, InFields, BlockSizeAssumption DEF Bytes
<1>2. CASE i.failed_
  <2>1. o = [ok |-> FALSE, data |-> <<>>, in |-> i]
    BY <1>2, Zenon DEF AdaptorNext, Outcome
  <2>2. o.ok = FALSE /\ o.data = <<>> /\ o.in = i
    BY <2>1
  <2>3. k = 0 /\ i.position_ = i.position_ - k + Len(<<>>)
    BY <1>0, <1>1, <1>2
  <2> HIDE DEF k
  <2> QED
    BY <1>0, <1>1, <1>2, <2>2, <2>3 DEF k
<1>3. CASE ~i.failed_ /\ k > 0
  <2> DEFINE d == Drop(i.buffer_, Len(i.buffer_) - k)
  <2>1. o = [ok |-> TRUE, data |-> d, in |-> [i EXCEPT !.backup_bytes_ = 0]]
    BY <1>3, Zenon DEF AdaptorNext, Outcome
  <2>2. /\ d \in Bytes /\ Len(d) = k
        /\ \A j \in 1 .. k : d[j] = i.buffer_[Len(i.buffer_) - k + j]
    <3> DEFINE m == Len(i.buffer_) - k
    <3>1. m \in 0 .. Len(i.buffer_) /\ Len(i.buffer_) - m = k
      BY <1>0, <1>1
    <3>2. i.buffer_ \in Seq(Nat)
      BY <1>1 DEF Bytes
    <3> HIDE DEF m, k
    <3>3. /\ Drop(i.buffer_, m) \in Seq(Nat)
          /\ Len(Drop(i.buffer_, m)) = Len(i.buffer_) - m
          /\ \A j \in 1 .. Len(i.buffer_) - m :
               Drop(i.buffer_, m)[j] = i.buffer_[m + j]
      BY <3>1, <3>2, DropOf
    <3> QED
      BY <3>1, <3>3, Zenon DEF m, Bytes
  <2> HIDE DEF d, k
  <2>3. o.ok = TRUE /\ o.data = d /\ o.in = [i EXCEPT !.backup_bytes_ = 0]
    BY <2>1
  <2>4. /\ o.in \in InStreams /\ o.in.backup_bytes_ = 0
        /\ o.in.limited = i.limited /\ o.in.limit_ = i.limit_
        /\ o.in.sound = i.sound /\ o.in.position_ = i.position_
        /\ o.in.offset = i.offset /\ o.in.seeks = i.seeks
        /\ o.in.short = i.short /\ o.in.failed_ = i.failed_
        /\ o.in.previous_seek_failed_ = i.previous_seek_failed_
        /\ o.in.buffer_ = i.buffer_
    BY <1>0, <2>3 DEF InStreams
  <2>5. Loaded(i)
    BY <1>0, <1>3
  <2>6. Loaded(o.in)
    BY <2>4, <2>5 DEF Loaded
  <2>7. \A j \in 1 .. k : d[j] = file[i.position_ - k + j]
    <3> TAKE j \in 1 .. k
    <3>1. Len(i.buffer_) - k + j \in 1 .. Len(i.buffer_)
      BY <1>0, <1>1
    <3>2. i.offset - Len(i.buffer_) + (Len(i.buffer_) - k + j)
            = i.position_ - k + j
      BY <1>0, <1>1
    <3>3. i.buffer_[Len(i.buffer_) - k + j]
            = file[i.offset - Len(i.buffer_) + (Len(i.buffer_) - k + j)]
      BY <2>5, <3>1 DEF Loaded
    <3> QED
      BY <2>2, <3>2, <3>3
  <2>8. i.position_ = i.position_ - k + Len(d) /\ Len(d) \in 1 .. Len(i.buffer_)
    BY <1>0, <1>1, <1>3, <2>2
  <2> QED
    BY <1>0, <1>1, <1>3, <2>2, <2>3, <2>4, <2>6, <2>7, <2>8 DEF k
<1>4. CASE ~i.failed_ /\ ~(k > 0)
  <2>1. PICK r \in ReadResults(i, i.offset, BlockSize) : o = ReadBlock(i, r)
    BY <1>4 DEF AdaptorNext
  <2>2. /\ r \in Int /\ r >= -1 /\ (r > 0 => i.offset + r <= Len(file))
        /\ (r = 0 => i.offset >= Len(file)) /\ (r >= 0 => ~i.broken)
    BY <1>0, <1>1, <2>1, ReadResultsOf
  <2>3. k = 0
    BY <1>1, <1>4
  <2>4. CASE r > 0
    <3> DEFINE d == SubSeq(file, i.offset + 1, i.offset + r)
    <3>1. o = [ok |-> TRUE, data |-> d,
               in |-> [i EXCEPT !.offset = @ + r, !.position_ = @ + r,
                                !.buffer_ = d]]
      BY <2>1, <2>4, Zenon DEF ReadBlock, Outcome
    <3>2. /\ d \in Bytes /\ Len(d) = r
          /\ \A j \in 1 .. r : d[j] = file[i.offset + j]
      <4>1. r \in Nat /\ i.offset + r <= Len(file)
        BY <2>2, <2>4
      <4>2. d = Block(file, i.offset, r)
        BY DEF Block
      <4>3. i.offset \in Nat
        BY <1>1
      <4> HIDE DEF d
      <4>4. /\ Block(file, i.offset, r) \in Bytes /\ Len(Block(file, i.offset, r)) = r
            /\ \A j \in 1 .. r : Block(file, i.offset, r)[j] = file[i.offset + j]
        BY <4>1, <4>3, BlockBytes
      <4> QED
        BY <4>2, <4>4
    <3> HIDE DEF d
    <3>3. o.ok = TRUE /\ o.data = d
          /\ o.in = [i EXCEPT !.offset = @ + r, !.position_ = @ + r,
                              !.buffer_ = d]
      BY <3>1
    <3>4. i.offset + r \in Nat /\ i.position_ + r = i.offset + r
      BY <1>0, <1>1, <2>2, <2>4
    <3>e. o.in = [i EXCEPT !.offset = i.offset + r,
                           !.position_ = i.offset + r, !.buffer_ = d]
      BY <3>3, <3>4
    <3>5. /\ o.in \in InStreams /\ o.in.backup_bytes_ = k
          /\ o.in.limited = i.limited /\ o.in.limit_ = i.limit_
          /\ o.in.sound = i.sound /\ o.in.position_ = i.offset + r
          /\ o.in.offset = i.offset + r /\ o.in.seeks = i.seeks
          /\ o.in.short = i.short /\ o.in.failed_ = i.failed_
          /\ o.in.previous_seek_failed_ = i.previous_seek_failed_
          /\ o.in.buffer_ = d
      BY <1>0, <3>2, <3>4, <3>e DEF InStreams
    <3>6. Loaded(o.in)
      <4>1. i.offset + r - Len(d) = i.offset /\ Len(d) <= i.offset + r
        BY <1>1, <2>2, <3>2
      <4>2. \A j \in 1 .. Len(d) :
              d[j] = file[i.offset + r - Len(d) + j]
        BY <3>2, <4>1
      <4>3. Len(o.in.buffer_) <= o.in.offset
        BY <3>5, <4>1
      <4>4. o.in.offset <= Len(file)
        BY <2>2, <2>4, <3>5
      <4>5. \A j \in 1 .. Len(o.in.buffer_) : o.in.buffer_[j]
              = file[o.in.offset - Len(o.in.buffer_) + j]
        <5>1. o.in.buffer_ = d /\ o.in.offset = i.offset + r
          BY <3>5
        <5>2. i.offset \in Nat /\ r \in Int /\ Len(d) \in Nat
          BY <1>1, <2>2, <3>2 DEF Bytes
        <5> QED
          BY <4>2, <5>1, <5>2
      <4> QED
        BY <4>3, <4>4, <4>5, Zenon DEF Loaded
    <3>7. i.position_ - k = i.offset /\ i.position_ - k + Len(d) = i.offset + r
          /\ Len(d) \in 1 .. Len(d) /\ ~(i.broken \/ i.offset >= Len(file))
      BY <1>0, <1>1, <2>2, <2>3, <2>4, <3>2
    <3>8. o.in.backup_bytes_ = 0 /\ o.in.position_ = i.position_ - k + Len(o.data)
      BY <2>3, <3>3, <3>5, <3>7
    <3>9. /\ ~i.failed_ /\ ~o.in.failed_ /\ Len(o.data) \in 1 .. Len(o.in.buffer_)
          /\ \A j \in 1 .. Len(o.data) : o.data[j] = file[i.position_ - k + j]
      BY <1>4, <3>2, <3>3, <3>5, <3>7
    <3> HIDE DEF k
    <3> QED
      BY <3>2, <3>3, <3>5, <3>6, <3>7, <3>8, <3>9 DEF k
  <2>5. CASE ~(r > 0)
    <3>1. o = [ok |-> FALSE, data |-> <<>>,
               in |-> [i EXCEPT !.buffer_ = <<>>, !.failed_ = r < 0,
                                !.broken = @ \/ r < 0]]
      BY <2>1, <2>5, Zenon DEF ReadBlock, Outcome
    <3>2. o.ok = FALSE /\ o.data = <<>>
          /\ o.in = [i EXCEPT !.buffer_ = <<>>, !.failed_ = r < 0,
                              !.broken = @ \/ r < 0]
      BY <3>1
    <3>3. (r < 0) \in BOOLEAN /\ (i.broken \/ r < 0) \in BOOLEAN
      BY <1>1, <2>2
    <3>4. /\ o.in \in InStreams /\ o.in.backup_bytes_ = k
          /\ o.in.limited = i.limited /\ o.in.limit_ = i.limit_
          /\ o.in.sound = i.sound /\ o.in.position_ = i.position_
          /\ o.in.offset = i.offset /\ o.in.seeks = i.seeks
          /\ o.in.short = i.short
          /\ o.in.previous_seek_failed_ = i.previous_seek_failed_
          /\ o.in.failed_ = (r < 0) /\ o.in.broken = (i.broken \/ r < 0)
      BY <1>0, <1>1, <3>2, <3>3 DEF InStreams
    <3>5. ~(r < 0) => i.offset >= Len(file)
      BY <2>2, <2>5
    <3>6. i.position_ = i.position_ - k + Len(<<>>)
      BY <1>0, <1>1, <2>3
    <3> HIDE DEF k
    <3> QED
      BY <1>0, <1>1, <1>4, <2>3, <3>2, <3>4, <3>5, <3>6 DEF k
  <2> QED
    BY <2>4, <2>5
<1> QED
  BY <1>1, <1>2, <1>3, <1>4

\* Where the consumer of the input stands, and where the limit is.
LEMMA ByteCountOf ==
  ASSUME NEW i, NEW n \in Nat, InputOK(i, n)
  PROVE  /\ InByteCount(i) = i.position_ - i.backup_bytes_ - Hidden(i)
         /\ InByteCount(i) \in Int /\ InByteCount(i) - n >= 0
         /\ EndOf(i) \in Int
         /\ EndOf(i) = InByteCount(i) + (IF i.limit_ < 0 THEN 0 ELSE i.limit_)
         /\ ~i.limited => EndOf(i) = InByteCount(i)
<1>1. /\ i \in InStreams /\ i.position_ = i.offset
      /\ (~i.limited => i.limit_ = 0) /\ i.backup_bytes_ <= Len(i.buffer_)
      /\ Hidden(i) + n <= Len(i.buffer_)
      /\ (Hidden(i) + n > 0 => i.backup_bytes_ = 0)
      /\ (Hidden(i) + n + i.backup_bytes_ > 0 => Len(i.buffer_) <= i.offset)
  BY DEF InputOK, Loaded
<1>2. /\ i.limited \in BOOLEAN /\ i.position_ \in Nat
      /\ i.backup_bytes_ \in Nat /\ i.limit_ \in Int
      /\ Len(i.buffer_) \in Nat /\ Hidden(i) \in Nat
  BY <1>1, InFields
<1>3. InByteCount(i) = i.position_ - i.backup_bytes_ - Hidden(i)
  BY <1>1, <1>2 DEF InByteCount, Hidden
<1>4. InByteCount(i) \in Int /\ InByteCount(i) - n >= 0
  BY <1>1, <1>2, <1>3
<1>5. /\ EndOf(i) = i.position_ - i.backup_bytes_ + i.limit_
      /\ Hidden(i) = IF i.limit_ < 0 THEN -i.limit_ ELSE 0
  BY DEF EndOf, Hidden
<1>6. /\ EndOf(i) \in Int
      /\ EndOf(i) = InByteCount(i) + (IF i.limit_ < 0 THEN 0 ELSE i.limit_)
  BY <1>2, <1>3, <1>5
<1>7. ~i.limited => EndOf(i) = InByteCount(i)
  BY <1>1, <1>2, <1>6, <1>4
<1> QED
  BY <1>3, <1>4, <1>6, <1>7

\* What a reader gets from Next(), with or without a LimitingInputStream.
LEMMA InNextOf ==
  ASSUME file \in Bytes, NEW i, NEW n \in Nat, InputOK(i, n),
         NEW o \in InNext(i)
  PROVE  /\ o.ok \in BOOLEAN /\ o.data \in Bytes
         /\ InputOK(o.in, Len(o.data))
         /\ o.in.limited = i.limited
         /\ o.in.seeks = i.seeks /\ o.in.short = i.short
         /\ InByteCount(o.in) = InByteCount(i) + Len(o.data)
         /\ i.limited => EndOf(o.in) = EndOf(i)
         /\ o.ok => /\ ~i.failed_ /\ ~o.in.failed_
                    /\ Len(o.data) > 0 => InByteCount(o.in) <= Len(file)
                    /\ \A j \in 1 .. Len(o.data) :
                         o.data[j] = file[InByteCount(i) + j]
                    /\ Dry(i) => o.data = <<>>
         /\ ~o.ok => /\ o.data = <<>>
                     /\ \/ o.in.failed_
                        \/ InByteCount(i) >= Len(file)
                        \/ i.limited /\ i.limit_ < 0 /\ o.in = i
         /\ i.failed_ => ~o.ok /\ o.in = i
         /\ Dry(i) => Dry(o.in)
<1>0. /\ i \in InStreams /\ i.sound /\ i.position_ = i.offset
      /\ (i.seeks => ~i.previous_seek_failed_)
      /\ (~i.limited => i.limit_ = 0)
      /\ (i.failed_ => Hidden(i) + n = 0 /\ i.backup_bytes_ = 0)
  BY DEF InputOK
<1>1. /\ i.limited \in BOOLEAN /\ i.failed_ \in BOOLEAN /\ i.position_ \in Nat
      /\ i.backup_bytes_ \in Nat /\ i.limit_ \in Int /\ i.seeks \in BOOLEAN
      /\ i.broken \in BOOLEAN /\ Len(i.buffer_) \in Nat /\ Hidden(i) \in Nat
      /\ Len(file) \in Nat /\ <<>> \in Bytes /\ Len(<<>>) = 0
  BY <1>0, InFields DEF Bytes
<1>2. /\ InByteCount(i) = i.position_ - i.backup_bytes_ - Hidden(i)
      /\ InByteCount(i) \in Int
  BY ByteCountOf
<1>3. CASE i.limited /\ i.limit_ < 0
  <2>1. o = [ok |-> FALSE, data |-> <<>>, in |-> i]
    BY <1>3, Zenon DEF InNext, Outcome
  <2>2. o.ok = FALSE /\ o.data = <<>> /\ o.in = i
    BY <2>1
  <2>3. InputOK(i, 0)
    BY <1>0, <1>1 DEF InputOK
  <2>4. InByteCount(i) = InByteCount(i) + Len(<<>>)
    BY <1>1, <1>2
  <2> QED
    BY <1>1, <1>3, <2>2, <2>3, <2>4
<1>4. CASE ~(i.limited /\ i.limit_ < 0)
  <2>0. i.limit_ >= 0 /\ Hidden(i) = 0
    BY <1>0, <1>1, <1>4 DEF Hidden
  <2>1. PICK a \in AdaptorNext(i) :
          o = IF i.limited /\ a.ok
              THEN Outcome(TRUE, Front(a.data, Least(Len(a.data), i.limit_)),
                           [a.in EXCEPT !.limit_ = @ - Len(a.data)])
              ELSE a
    <3>1. CASE i.limited
      BY <1>4, <3>1, Zenon DEF InNext
    <3>2. CASE ~i.limited
      BY <3>2, Zenon DEF InNext
    <3> QED
      BY <3>1, <3>2
  <2>2. /\ a.ok \in BOOLEAN /\ a.data \in Bytes /\ a.in \in InStreams
        /\ a.in.limited = i.limited /\ a.in.limit_ = i.limit_
        /\ a.in.sound = i.sound /\ a.in.position_ = a.in.offset
        /\ a.in.seeks = i.seeks /\ a.in.short = i.short
        /\ a.in.previous_seek_failed_ = i.previous_seek_failed_
        /\ a.in.backup_bytes_ = 0
        /\ a.in.position_ = i.position_ - i.backup_bytes_ + Len(a.data)
        /\ a.ok => /\ ~i.failed_ /\ ~a.in.failed_
                   /\ Len(a.data) \in 1 .. Len(a.in.buffer_)
                   /\ Loaded(a.in)
                   /\ \A j \in 1 .. Len(a.data) : a.data[j] =
                        file[i.position_ - i.backup_bytes_ + j]
                   /\ i.seeks \/ i.backup_bytes_ > 0
                        \/ ~(i.broken \/ i.offset >= Len(file))
        /\ ~a.ok => /\ a.data = <<>>
                    /\ ~a.in.failed_ => a.in.offset >= Len(file)
                    /\ i.broken => a.in.broken
        /\ i.failed_ => a.in = i
    BY <2>0, AdaptorNextOf
  <2>3. /\ Len(a.data) \in Nat /\ a.in.failed_ \in BOOLEAN
        /\ a.in.position_ \in Nat /\ Len(a.in.buffer_) \in Nat
        /\ a.in.broken \in BOOLEAN
    BY <2>2, InFields DEF Bytes
  <2>4. InByteCount(i) = i.position_ - i.backup_bytes_
    BY <1>1, <1>2, <2>0
  <2>5. CASE ~a.ok
    <3>1. o = a
      BY <2>1, <2>5
    <3>2. Hidden(a.in) = 0
      BY <2>0, <2>2 DEF Hidden
    <3>3. InputOK(a.in, Len(<<>>))
      BY <1>0, <1>1, <2>2, <2>3, <3>2 DEF InputOK
    <3>4. InByteCount(a.in) = InByteCount(i) + Len(<<>>)
      <4>1. InByteCount(a.in) = a.in.position_ - a.in.backup_bytes_ - Hidden(a.in)
        BY <1>1, <3>3, ByteCountOf
      <4> QED
        BY <1>1, <2>2, <2>3, <2>4, <2>5, <3>2, <4>1
    <3>5. EndOf(a.in) = EndOf(i)
      BY <1>1, <2>2, <2>3, <2>5 DEF EndOf
    <3>6. ~a.in.failed_ => InByteCount(i) >= Len(file)
      BY <1>1, <2>2, <2>3, <2>4, <2>5
    <3>7. Dry(i) => Dry(a.in)
      BY <1>1, <2>0, <2>2, <2>3, <2>5 DEF Dry
    <3> QED
      BY <1>1, <2>2, <2>5, <3>1, <3>3, <3>4, <3>5, <3>6, <3>7
  <2>6. CASE a.ok /\ ~i.limited
    <3>1. o = a
      BY <2>1, <2>6
    <3>2. Hidden(a.in) = 0 /\ i.limit_ = 0
      BY <1>0, <2>0, <2>2, <2>6 DEF Hidden
    <3>3. InputOK(a.in, Len(a.data))
      BY <1>0, <1>1, <2>2, <2>3, <2>6, <3>2 DEF InputOK
    <3>4. InByteCount(a.in) = a.in.position_ - a.in.backup_bytes_ - Hidden(a.in)
      BY <2>3, <3>3, ByteCountOf
    <3>5. InByteCount(a.in) = InByteCount(i) + Len(a.data)
      BY <1>1, <2>2, <2>3, <2>4, <3>2, <3>4
    <3>6. InByteCount(a.in) <= Len(file)
      BY <1>1, <2>2, <2>3, <2>6, <3>2, <3>4 DEF Loaded
    <3>7. \A j \in 1 .. Len(a.data) : a.data[j] = file[InByteCount(i) + j]
      BY <2>2, <2>4, <2>6
    <3>8. ~Dry(i)
      <4>1. /\ ~i.failed_ /\ ~i.limited
            /\ i.seeks \/ i.backup_bytes_ > 0 \/ ~(i.broken \/ i.offset >= Len(file))
        BY <2>2, <2>6
      <4>2. ~(i.backup_bytes_ > 0 /\ i.backup_bytes_ = 0)
        OBVIOUS
      <4> QED
        BY <4>1, <4>2, Zenon DEF Dry
    <3> QED
      BY <1>1, <2>2, <2>6, <3>1, <3>3, <3>5, <3>6, <3>7, <3>8
  <2>7. CASE a.ok /\ i.limited
    <3> DEFINE m == Least(Len(a.data), i.limit_)
               f == Front(a.data, m)
    <3>1. o = [ok |-> TRUE, data |-> f,
               in |-> [a.in EXCEPT !.limit_ = @ - Len(a.data)]]
      BY <2>1, <2>7, Zenon DEF Outcome
    <3>2. m \in 0 .. Len(a.data) /\ m <= i.limit_
          /\ (m = Len(a.data) \/ m = i.limit_)
      BY <1>1, <2>0, <2>3 DEF Least
    <3>3. /\ f \in Bytes /\ Len(f) = m
          /\ \A j \in 1 .. m : f[j] = a.data[j]
      <4>1. a.data \in Seq(Nat)
        BY <2>2 DEF Bytes
      <4> HIDE DEF m
      <4> QED
        BY <3>2, <4>1, FrontOf DEF Bytes
    <3> HIDE DEF f, m
    <3>4. /\ o.ok = TRUE /\ o.data = f
          /\ o.in = [a.in EXCEPT !.limit_ = i.limit_ - Len(a.data)]
      BY <2>2, <3>1
    <3>5. i.limit_ - Len(a.data) \in Int
      BY <1>1, <2>3
    <3>6. /\ o.in \in InStreams /\ o.in.limited = i.limited
          /\ o.in.limit_ = i.limit_ - Len(a.data)
          /\ o.in.sound = i.sound /\ o.in.position_ = a.in.position_
          /\ o.in.offset = a.in.offset /\ o.in.seeks = i.seeks
          /\ o.in.short = i.short /\ o.in.failed_ = a.in.failed_
          /\ o.in.previous_seek_failed_ = i.previous_seek_failed_
          /\ o.in.backup_bytes_ = 0 /\ o.in.buffer_ = a.in.buffer_
      BY <2>2, <3>4, <3>5 DEF InStreams
    <3>7. Hidden(o.in) = Len(a.data) - m
      BY <1>1, <2>0, <2>3, <3>2, <3>6 DEF Hidden, m, Least
    <3>8. Loaded(o.in)
      <4>1. Loaded(a.in) /\ o.in.buffer_ = a.in.buffer_ /\ o.in.offset = a.in.offset
        BY <2>2, <2>7, <3>6
      <4> QED
        BY <4>1 DEF Loaded
    <3>9. InputOK(o.in, m)
      <4>1. Hidden(o.in) + m = Len(a.data)
        BY <2>3, <3>2, <3>7
      <4>2. Len(a.data) <= Len(o.in.buffer_) /\ 0 <= Len(o.in.buffer_)
        BY <2>2, <2>3, <2>7, <3>6
      <4>3. o.in.position_ = o.in.offset /\ ~o.in.failed_
        BY <2>2, <2>7, <3>6
      <4> QED
        BY <1>0, <2>7, <3>6, <3>8, <4>1, <4>2, <4>3 DEF InputOK
    <3>10. InByteCount(o.in) = InByteCount(i) + m
      <4>1. m \in Nat
        BY <2>3, <3>2
      <4>2. InByteCount(o.in)
              = o.in.position_ - o.in.backup_bytes_ - Hidden(o.in)
        BY <3>9, <4>1, ByteCountOf
      <4>3. o.in.position_ = InByteCount(i) + Len(a.data) /\ InByteCount(i) \in Int
        BY <1>1, <2>2, <2>4, <3>6
      <4>4. o.in.backup_bytes_ = 0 /\ Hidden(o.in) = Len(a.data) - m /\ Len(a.data) \in Nat
        BY <2>3, <3>6, <3>7
      <4> QED
        BY <4>1, <4>2, <4>3, <4>4
    <3>11. EndOf(o.in) = EndOf(i)
      BY <1>1, <2>2, <2>3, <3>6 DEF EndOf
    <3>12. InByteCount(o.in) <= Len(file)
      <4>1. o.in.position_ <= Len(file) /\ o.in.position_ \in Nat
        BY <2>2, <2>3, <3>6, <3>8 DEF Loaded
      <4>2. InByteCount(o.in) = o.in.position_ - (Len(a.data) - m)
        <5>1. o.in.position_ = InByteCount(i) + Len(a.data) /\ InByteCount(i) \in Int
          BY <1>1, <2>2, <2>4, <3>6
        <5>2. Len(a.data) \in Nat /\ m \in Nat
          BY <2>3, <3>2
        <5> QED
          BY <3>10, <5>1, <5>2
      <4> QED
        BY <1>1, <2>3, <3>2, <4>1, <4>2
    <3>13. \A j \in 1 .. m : f[j] = file[InByteCount(i) + j]
      <4> TAKE j \in 1 .. m
      <4>1. j \in 1 .. Len(a.data)
        BY <2>3, <3>2
      <4> QED
        BY <2>2, <2>4, <2>7, <3>3, <4>1
    <3>14. Dry(i) => i.limit_ = 0
      BY <1>1, <2>0, <2>2, <2>7 DEF Dry
    <3>15. Dry(i) => f = <<>> /\ Dry(o.in)
      <4> SUFFICES ASSUME Dry(i) PROVE f = <<>> /\ Dry(o.in)
        OBVIOUS
      <4>1. m = 0 /\ o.in.limited /\ o.in.limit_ <= 0
        BY <2>3, <2>7, <3>2, <3>6, <3>14
      <4>2. f = <<>>
        BY <3>3, <4>1 DEF Bytes
      <4> QED
        BY <4>1, <4>2 DEF Dry
    <3> QED
      BY <1>1, <2>2, <2>7, <3>3, <3>4, <3>6, <3>9, <3>10, <3>11, <3>12, <3>13,
         <3>15
  <2> QED
    BY <2>5, <2>6, <2>7
<1> QED
  BY <1>3, <1>4
-----------------------------------------------------------------------------
(* Giving back, limiting and skipping *)

\* BackUp() with all the reader holds.
LEMMA InBackUpOf ==
  ASSUME NEW i, NEW n \in Nat \ {0}, InputOK(i, n)
  PROVE  /\ InputOK(InBackUp(i, n), 0)
         /\ InBackUp(i, n).seeks = i.seeks /\ InBackUp(i, n).short = i.short
         /\ InByteCount(InBackUp(i, n)) = InByteCount(i) - n
<1>0. /\ i \in InStreams /\ i.sound /\ i.position_ = i.offset
      /\ (i.seeks => ~i.previous_seek_failed_)
      /\ (~i.limited => i.limit_ = 0)
      /\ (Hidden(i) + n <= Len(i.buffer_))
      /\ (Hidden(i) + n > 0 => i.backup_bytes_ = 0)
      /\ (i.failed_ => Hidden(i) + n = 0)
      /\ (Hidden(i) + n + i.backup_bytes_ > 0 => Loaded(i))
  BY DEF InputOK
<1>1. /\ i.limited \in BOOLEAN /\ i.failed_ \in BOOLEAN /\ i.position_ \in Nat
      /\ i.backup_bytes_ \in Nat /\ i.limit_ \in Int /\ i.sound \in BOOLEAN
      /\ Len(i.buffer_) \in Nat /\ Hidden(i) \in Nat /\ i.buffer_ \in Bytes
  BY <1>0, InFields
<1>2. /\ i.backup_bytes_ = 0 /\ ~i.failed_ /\ Loaded(i)
      /\ i.buffer_ # <<>> /\ Len(<<>>) = 0
  BY <1>0, <1>1 DEF Bytes
<1> DEFINE count == Hidden(i) + n
           limit == IF i.limit_ < 0 THEN n
                    ELSE IF i.limited THEN i.limit_ + n ELSE i.limit_
           x == InBackUp(i, n)
<1>3. /\ count \in 0 .. Len(i.buffer_) /\ count > 0
      /\ limit \in Int /\ limit >= 0 /\ (~i.limited => limit = 0)
  BY <1>0, <1>1
<1>4. x = [i EXCEPT !.backup_bytes_ = count, !.sound = TRUE, !.limit_ = limit]
  <2>1. \A k \in 0 .. Len(i.buffer_) :
          AdaptorBackUp(i, k) = [i EXCEPT !.backup_bytes_ = k, !.sound = TRUE]
    <3> TAKE k \in 0 .. Len(i.buffer_)
    <3>1. (i.sound /\ i.backup_bytes_ = 0 /\ i.buffer_ # <<>>
             /\ k \in 0 .. Len(i.buffer_)) = TRUE
      BY <1>0, <1>1, <1>2
    <3>2. AdaptorBackUp(i, k) =
            [i EXCEPT !.backup_bytes_ = k,
                      !.sound = (i.sound /\ i.backup_bytes_ = 0
                         /\ i.buffer_ # <<>> /\ k \in 0 .. Len(i.buffer_))]
      BY DEF AdaptorBackUp
    <3> QED
      BY <3>1, <3>2
  <2> HIDE DEF count, limit
  <2>2. AdaptorBackUp(i, count)
          = [i EXCEPT !.backup_bytes_ = count, !.sound = TRUE]
    BY <1>3, <2>1
  <2>3. CASE ~i.limited
    <3>1. count = n /\ limit = i.limit_
      BY <1>0, <1>1, <2>3 DEF count, limit, Hidden
    <3>2. x = AdaptorBackUp(i, count)
      BY <2>3, <3>1 DEF InBackUp
    <3> QED
      BY <1>0, <2>2, <3>1, <3>2 DEF InStreams
  <2>4. CASE i.limited /\ i.limit_ < 0
    <3>1. count = n - i.limit_ /\ limit = n
      BY <1>0, <1>1, <2>4 DEF count, limit, Hidden
    <3>2. x = [AdaptorBackUp(i, count) EXCEPT !.limit_ = n]
      BY <2>4, <3>1 DEF InBackUp
    <3> QED
      BY <1>0, <2>2, <3>1, <3>2 DEF InStreams
  <2>5. CASE i.limited /\ ~(i.limit_ < 0)
    <3>1. count = n /\ limit = i.limit_ + n
      BY <1>0, <1>1, <2>5 DEF count, limit, Hidden
    <3>2. x = [AdaptorBackUp(i, count) EXCEPT !.limit_ = @ + n]
      BY <2>5, <3>1 DEF InBackUp
    <3> QED
      BY <1>0, <2>2, <3>1, <3>2 DEF InStreams
  <2> QED
    BY <1>1, <2>3, <2>4, <2>5
<1> HIDE DEF x, limit
<1>5. /\ x \in InStreams /\ x.backup_bytes_ = count /\ x.sound = TRUE
      /\ x.limit_ = limit /\ x.limited = i.limited
      /\ x.offset = i.offset /\ x.position_ = i.position_
      /\ x.seeks = i.seeks /\ x.short = i.short /\ x.failed_ = i.failed_
      /\ x.previous_seek_failed_ = i.previous_seek_failed_
      /\ x.buffer_ = i.buffer_
  <2>1. count \in Nat
    BY <1>1
  <2> HIDE DEF count
  <2> QED
    BY <1>0, <1>3, <1>4, <2>1 DEF InStreams
<1>6. Hidden(x) = 0
  BY <1>3, <1>5 DEF Hidden
<1>7. Loaded(x)
  BY <1>2, <1>5 DEF Loaded
<1>8. InputOK(x, 0)
  BY <1>0, <1>1, <1>2, <1>3, <1>5, <1>6, <1>7 DEF InputOK
<1>9. InByteCount(x) = InByteCount(i) - n
  <2>1. InByteCount(x) = x.position_ - x.backup_bytes_ - Hidden(x)
    BY <1>8, ByteCountOf
  <2>2. InByteCount(i) = i.position_ - i.backup_bytes_ - Hidden(i)
    BY ByteCountOf
  <2> QED
    BY <1>1, <1>2, <1>5, <1>6, <2>1, <2>2
<1> QED
  BY <1>5, <1>8, <1>9 DEF x

LEMMA LimitedOf ==
  ASSUME NEW i, InputOK(i, 0), ~i.limited, NEW n \in Nat
  PROVE  /\ InputOK(Limited(i, n), 0)
         /\ Limited(i, n).seeks = i.seeks /\ Limited(i, n).short = i.short
         /\ Limited(i, n).limited = TRUE
         /\ InByteCount(Limited(i, n)) = InByteCount(i)
         /\ EndOf(Limited(i, n)) = InByteCount(i) + n
<1> DEFINE x == Limited(i, n)
<1>0. /\ i \in InStreams /\ i.limit_ = 0 /\ Hidden(i) = 0
  BY DEF InputOK, Hidden
<1>1. x = [i EXCEPT !.limited = TRUE, !.limit_ = n]
  BY DEF Limited
<1> HIDE DEF x
<1>m. x \in InStreams
  BY <1>0, <1>1, n \in Int DEF InStreams
<1>2. /\ x \in InStreams /\ x.backup_bytes_ = i.backup_bytes_
      /\ x.sound = i.sound /\ x.limit_ = n /\ x.limited = TRUE
      /\ x.offset = i.offset /\ x.position_ = i.position_
      /\ x.seeks = i.seeks /\ x.short = i.short /\ x.failed_ = i.failed_
      /\ x.previous_seek_failed_ = i.previous_seek_failed_
      /\ x.buffer_ = i.buffer_
  BY <1>0, <1>1, <1>m DEF InStreams
<1>3. Hidden(x) = 0
  BY <1>2 DEF Hidden
<1>4. Loaded(i) => Loaded(x)
  BY <1>2 DEF Loaded
<1>5. InputOK(x, 0)
  BY <1>0, <1>2, <1>3, <1>4 DEF InputOK
<1>6. InByteCount(x) = InByteCount(i) /\ EndOf(x) = InByteCount(i) + n
  <2>1. /\ InByteCount(x) = x.position_ - x.backup_bytes_ - Hidden(x)
        /\ InByteCount(i) = i.position_ - i.backup_bytes_ - Hidden(i)
        /\ EndOf(x) = InByteCount(x) + (IF x.limit_ < 0 THEN 0 ELSE x.limit_)
    BY <1>5, ByteCountOf
  <2> QED
    BY <1>0, <1>2, <1>3, <2>1
<1> QED
  BY <1>2, <1>5, <1>6 DEF x

\* The destructor of LimitingInputStream gives back what it hid.
LEMMA UnlimitedOf ==
  ASSUME NEW i, InputOK(i, 0)
  PROVE  /\ InputOK(Unlimited(i), 0)
         /\ Unlimited(i).seeks = i.seeks /\ Unlimited(i).short = i.short
         /\ InByteCount(Unlimited(i)) = InByteCount(i)
<1> DEFINE x == Unlimited(i)
           count == IF i.limit_ < 0 THEN -i.limit_ ELSE i.backup_bytes_
<1>0. /\ i \in InStreams /\ i.sound /\ i.position_ = i.offset
      /\ (i.seeks => ~i.previous_seek_failed_)
      /\ i.backup_bytes_ <= Len(i.buffer_)
      /\ (Hidden(i) <= Len(i.buffer_))
      /\ (Hidden(i) > 0 => i.backup_bytes_ = 0)
      /\ (i.failed_ => Hidden(i) = 0 /\ i.backup_bytes_ = 0)
      /\ (Hidden(i) + i.backup_bytes_ > 0 => Loaded(i))
  <2>1. Hidden(i) \in Nat
    BY InFields DEF InputOK
  <2> QED
    BY <2>1 DEF InputOK
<1>1. /\ i.limited \in BOOLEAN /\ i.failed_ \in BOOLEAN /\ i.position_ \in Nat
      /\ i.backup_bytes_ \in Nat /\ i.limit_ \in Int /\ i.sound \in BOOLEAN
      /\ Len(i.buffer_) \in Nat /\ Hidden(i) \in Nat /\ i.buffer_ \in Bytes
      /\ Hidden(i) = IF i.limit_ < 0 THEN -i.limit_ ELSE 0
  BY <1>0, InFields DEF Hidden
<1>2. /\ count \in Nat /\ count <= Len(i.buffer_)
      /\ count = Hidden(i) + i.backup_bytes_
  BY <1>0, <1>1
<1>3. x = [i EXCEPT !.backup_bytes_ = count, !.limited = FALSE, !.limit_ = 0]
  <2>1. CASE i.limit_ < 0
    <3>1. i.backup_bytes_ = 0 /\ i.buffer_ # <<>> /\ -i.limit_ \in 0 .. Len(i.buffer_)
      <4>1. Hidden(i) > 0 /\ Len(i.buffer_) > 0 /\ Len(<<>>) = 0
        BY <1>0, <1>1, <2>1
      <4> QED
        BY <1>0, <1>1, <2>1, <4>1
    <3>2. (i.sound /\ i.backup_bytes_ = 0 /\ i.buffer_ # <<>>
             /\ -i.limit_ \in 0 .. Len(i.buffer_)) = i.sound
      BY <1>0, <1>1, <3>1
    <3>3. AdaptorBackUp(i, -i.limit_) =
            [i EXCEPT !.backup_bytes_ = -i.limit_,
                      !.sound = (i.sound /\ i.backup_bytes_ = 0
                         /\ i.buffer_ # <<>> /\ -i.limit_ \in 0 .. Len(i.buffer_))]
      BY DEF AdaptorBackUp
    <3>4. AdaptorBackUp(i, -i.limit_) =
            [i EXCEPT !.backup_bytes_ = -i.limit_, !.sound = i.sound]
      BY <3>2, <3>3
    <3>5. x = [AdaptorBackUp(i, -i.limit_) EXCEPT !.limited = FALSE, !.limit_ = 0]
      BY <2>1 DEF Unlimited
    <3>6. count = -i.limit_
      BY <2>1
    <3> HIDE DEF count, x
    <3> QED
      BY <1>0, <3>4, <3>5, <3>6 DEF InStreams
  <2>2. CASE ~(i.limit_ < 0)
    <3>1. x = [i EXCEPT !.limited = FALSE, !.limit_ = 0] /\ count = i.backup_bytes_
      BY <2>2 DEF Unlimited
    <3> HIDE DEF count, x
    <3> QED
      BY <1>0, <3>1 DEF InStreams
  <2> QED
    BY <2>1, <2>2
<1> HIDE DEF x, count
<1>m. x \in InStreams
  <2>1. i \in InStreams /\ count \in Nat /\ 0 \in Int /\ FALSE \in BOOLEAN
    BY <1>0, <1>2
  <2> QED
    BY <1>3, <2>1 DEF InStreams
<1>4. /\ x \in InStreams /\ x.backup_bytes_ = count
      /\ x.sound = i.sound /\ x.limit_ = 0 /\ x.limited = FALSE
      /\ x.offset = i.offset /\ x.position_ = i.position_
      /\ x.seeks = i.seeks /\ x.short = i.short /\ x.failed_ = i.failed_
      /\ x.previous_seek_failed_ = i.previous_seek_failed_
      /\ x.buffer_ = i.buffer_
  BY <1>0, <1>3, <1>m DEF InStreams
<1>5. Hidden(x) = 0
  BY <1>4 DEF Hidden
<1>6. Loaded(i) => Loaded(x)
  BY <1>4 DEF Loaded
<1>7. InputOK(x, 0)
  BY <1>0, <1>1, <1>2, <1>4, <1>5, <1>6 DEF InputOK
<1>8. InByteCount(x) = InByteCount(i)
  <2>1. /\ InByteCount(x) = x.position_ - x.backup_bytes_ - Hidden(x)
        /\ InByteCount(i) = i.position_ - i.backup_bytes_ - Hidden(i)
    BY <1>7, ByteCountOf
  <2> QED
    BY <1>1, <1>2, <1>4, <1>5, <2>1
<1> QED
  BY <1>4, <1>7, <1>8 DEF x

\* How far the loop of CopyingInputStream::Skip comes.
LEMMA SkippedOf ==
  ASSUME file \in Bytes, NEW i \in InStreams, NEW count \in Nat \ {0},
         NEW p \in SkippedByReading(i, count)
  PROVE  /\ p[1] \in Nat /\ p[2] \in BOOLEAN
         /\ ~i.short /\ count <= JunkSize => p[1] <= count
         /\ p[1] < count /\ ~p[2] => i.offset + p[1] >= Len(file)
         /\ i.broken \/ i.offset >= Len(file) => p[1] = 0
<1> DEFINE size == Least(count, JunkSize)
           Reads(s) == ReadResults(i, i.offset + s, size)
           Places == 0 .. Len(file)
           Closed(S) == /\ 0 \in S
                        /\ \A t \in S, r \in 1 .. JunkSize :
                             t < count /\ r \in Reads(t) => t + r \in S
           Reached == {s \in Places :
                         \A S \in SUBSET Places : Closed(S) => s \in S}
<1>0. /\ Len(file) \in Nat /\ i.offset \in Nat /\ i.broken \in BOOLEAN
      /\ i.short \in BOOLEAN /\ JunkSize \in Nat \ {0}
  BY InFields, JunkSizeAssumption DEF Bytes
<1>1. size \in Nat \ {0} /\ size <= count /\ (count <= JunkSize => size = count)
  BY <1>0 DEF Least
<1>2. /\ p[1] \in Reached /\ p[2] \in BOOLEAN
      /\ ~p[2] => p[1] >= count \/ 0 \in Reads(p[1])
  <2>1. p \in {<<s, FALSE>> : s \in {t \in Reached : t >= count \/ 0 \in Reads(t)}}
          \cup {<<s, TRUE>> : s \in {t \in Reached : t < count /\ -1 \in Reads(t)}}
    BY Zenon DEF SkippedByReading
  <2> HIDE DEF Reached, Reads
  <2>2. CASE \E s \in {t \in Reached : t >= count \/ 0 \in Reads(t)} :
               p = <<s, FALSE>>
    BY <2>2
  <2>3. CASE \E s \in {t \in Reached : t < count /\ -1 \in Reads(t)} :
               p = <<s, TRUE>>
    BY <2>3
  <2> QED
    BY <2>1, <2>2, <2>3
<1>3. p[1] \in Nat /\ p[1] <= Len(file)
  BY <1>0, <1>2
<1>4. \A s \in Places : \A r \in Reads(s) :
        /\ r \in Int /\ r <= size
        /\ r > 0 => i.offset + s + r <= Len(file)
        /\ r = 0 => i.offset + s >= Len(file)
        /\ r >= 0 => ~i.broken
        /\ r >= 0 /\ ~i.short =>
             r = Least(size, Greatest(0, Len(file) - (i.offset + s)))
  <2> TAKE s \in Places
  <2> TAKE r \in Reads(s)
  <2> HIDE DEF size
  <2>1. i.offset + s \in Nat
    BY <1>0
  <2> QED
    BY <1>1, <2>1, ReadResultsOf
<1> HIDE DEF size, Reads
<1>5. ASSUME ~i.short, count <= JunkSize PROVE p[1] <= count
  <2> DEFINE most == Least(count, Greatest(0, Len(file) - i.offset))
             S == {0, most}
  <2>1. most \in Places /\ most <= count
        /\ (most < count => i.offset + most >= Len(file))
    BY <1>0 DEF Least, Greatest
  <2>2. Closed(S)
    <3> SUFFICES ASSUME NEW t \in S, NEW r \in 1 .. JunkSize, t < count,
                        r \in Reads(t)
                 PROVE  t + r \in S
      OBVIOUS
    <3>1. t \in Places /\ r > 0 /\ r >= 0 /\ r \in Int
      BY <1>0, <2>1
    <3>2. i.offset + t + r <= Len(file)
      BY <1>4, <3>1
    <3>3. r = Least(count, Greatest(0, Len(file) - (i.offset + t)))
      BY <1>1, <1>4, <1>5, <3>1
    <3> HIDE DEF most
    <3>4. t = 0
      BY <1>0, <2>1, <3>1, <3>2
    <3>5. i.offset + t = i.offset
      BY <1>0, <3>4
    <3>6. t + r = most
      BY <3>1, <3>3, <3>4, <3>5 DEF most
    <3> QED
      BY <3>6
  <2> HIDE DEF most
  <2>3. S \in SUBSET Places
    BY <1>0, <2>1
  <2>4. p[1] \in S
    BY <1>2, <2>2, <2>3
  <2> QED
    BY <2>1, <2>4
<1>6. ASSUME p[1] < count, ~p[2] PROVE i.offset + p[1] >= Len(file)
  <2>1. 0 \in Reads(p[1]) /\ p[1] \in Places
    BY <1>2, <1>3, <1>6
  <2> QED
    BY <1>4, <2>1
<1>7. ASSUME i.broken \/ i.offset >= Len(file) PROVE p[1] = 0
  <2>1. Closed({0})
    <3> SUFFICES ASSUME NEW r \in 1 .. JunkSize, r \in Reads(0) PROVE FALSE
      OBVIOUS
    <3>1. 0 \in Places /\ r > 0 /\ r >= 0 /\ r \in Int
      BY <1>0
    <3>2. i.offset + 0 + r <= Len(file) /\ ~i.broken
      BY <1>4, <3>1
    <3> QED
      BY <1>0, <1>7, <3>1, <3>2
  <2>2. {0} \in SUBSET Places
    BY <1>0
  <2>3. p[1] \in {0}
    BY <1>2, <2>1, <2>2
  <2> QED
    BY <2>3
<1> QED
  BY <1>2, <1>3, <1>5, <1>6, <1>7

LEMMA FileSkipOf ==
  ASSUME file \in Bytes, NEW i \in InStreams, NEW count \in Nat \ {0},
         i.seeks => ~i.previous_seek_failed_, NEW o \in FileSkip(i, count)
  PROVE  /\ o[1] \in Nat /\ o[2] \in InStreams
         /\ o[2].seeks = i.seeks /\ o[2].short = i.short
         /\ o[2].offset = i.offset /\ o[2].position_ = i.position_
         /\ o[2].buffer_ = i.buffer_ /\ o[2].backup_bytes_ = i.backup_bytes_
         /\ o[2].failed_ = i.failed_ /\ o[2].limited = i.limited
         /\ o[2].limit_ = i.limit_ /\ o[2].sound = i.sound
         /\ o[2].seeks => ~o[2].previous_seek_failed_
         /\ i.seeks => o[1] = count
         /\ ExactBy(i, count) => o[1] <= count
         /\ ~i.seeks /\ o[1] < count =>
              o[2].broken \/ i.offset + o[1] >= Len(file)
         /\ ~i.seeks /\ (i.broken \/ i.offset >= Len(file)) =>
              o[1] = 0 /\ (i.broken => o[2].broken)
<1>0. /\ i.seeks \in BOOLEAN /\ i.broken \in BOOLEAN
      /\ i.previous_seek_failed_ \in BOOLEAN /\ i.offset \in Nat
      /\ IntMax \in Nat /\ JunkSize \in Nat \ {0} /\ i.short \in BOOLEAN
  BY InFields, IntMaxAssumption, JunkSizeAssumption
<1>1. CASE i.seeks /\ ~i.previous_seek_failed_
  <2>1. o = <<count, i>>
    BY <1>1 DEF FileSkip
  <2>2. o[1] = count /\ o[2] = i /\ o[1] \in Nat /\ ~(o[1] < count)
        /\ o[1] <= count
    BY <2>1
  <2>3. i.seeks = TRUE
    BY <1>0, <1>1
  <2>4. ExactBy(i, count) => o[1] <= count
    BY <2>2
  <2>5. /\ o[2].seeks => ~o[2].previous_seek_failed_
        /\ o[2] \in InStreams
    BY <1>1, <2>2
  <2> QED
    BY <2>2, <2>3, <2>4, <2>5
<1>2. CASE ~(i.seeks /\ ~i.previous_seek_failed_)
  <2>1. PICK s \in SkippedByReading(i, count) :
          o = <<s[1], [i EXCEPT !.previous_seek_failed_ = TRUE,
                                !.broken = @ \/ s[2]]>>
    BY <1>2, Zenon DEF FileSkip
  <2>2. /\ s[1] \in Nat /\ s[2] \in BOOLEAN
        /\ ~i.short /\ count <= JunkSize => s[1] <= count
        /\ s[1] < count /\ ~s[2] => i.offset + s[1] >= Len(file)
        /\ i.broken \/ i.offset >= Len(file) => s[1] = 0
    BY SkippedOf
  <2>3. o[1] = s[1] /\ o[2] = [i EXCEPT !.previous_seek_failed_ = TRUE,
                                        !.broken = i.broken \/ s[2]]
    BY <2>1
  <2>4. ~i.seeks
    BY <1>0, <1>2
  <2>5. (i.broken \/ s[2]) \in BOOLEAN
    BY <1>0, <2>2
  <2>6. o[2] \in InStreams
    BY <2>3, <2>5 DEF InStreams
  <2>7. /\ o[2].seeks = i.seeks /\ o[2].short = i.short
        /\ o[2].offset = i.offset /\ o[2].position_ = i.position_
        /\ o[2].buffer_ = i.buffer_ /\ o[2].backup_bytes_ = i.backup_bytes_
        /\ o[2].failed_ = i.failed_ /\ o[2].limited = i.limited
        /\ o[2].limit_ = i.limit_ /\ o[2].sound = i.sound
        /\ o[2].broken = (i.broken \/ s[2])
    BY <2>3, <2>5 DEF InStreams
  <2>8. ExactBy(i, count) => s[1] <= count
    BY <1>0, <2>2, <2>4 DEF ExactBy
  <2>9. s[1] < count => o[2].broken \/ i.offset + s[1] >= Len(file)
    BY <2>2, <2>7
  <2>10. i.broken => o[2].broken
    BY <2>7
  <2> QED
    BY <2>2, <2>3, <2>4, <2>6, <2>7, <2>8, <2>9, <2>10
<1> QED
  BY <1>1, <1>2

\* The check of Skip() changes nothing when the count is not negative.
LEMMA CheckedSkip ==
  ASSUME NEW i \in InStreams, i.sound, NEW count \in Nat
  PROVE  AdaptorSkip(i, count) = SkipBackedUp(i, count)
<1>1. (i.sound /\ count >= 0) = TRUE
  OBVIOUS
<1>2. [i EXCEPT !.sound = TRUE] = i
  BY DEF InStreams
<1>3. [i EXCEPT !.sound = i.sound /\ count >= 0] = [i EXCEPT !.sound = TRUE]
  BY <1>1, Zenon
<1>4. [i EXCEPT !.sound = i.sound /\ count >= 0] = i
  BY <1>2, <1>3
<1> QED
  BY <1>4, Zenon DEF AdaptorSkip

\* What Skip() of the adaptor does to the stream.
LEMMA AdaptorSkipOf ==
  ASSUME file \in Bytes, NEW i, InputOK(i, 0), i.limit_ >= 0,
         NEW count \in Nat, NEW o \in AdaptorSkip(i, count)
  PROVE  /\ o.ok \in BOOLEAN /\ InputOK(o.in, 0)
         /\ o.in.limited = i.limited /\ o.in.limit_ = i.limit_
         /\ o.in.seeks = i.seeks /\ o.in.short = i.short
         /\ o.in.failed_ = i.failed_
         /\ InByteCount(o.in) \in Int /\ InByteCount(o.in) >= InByteCount(i)
         /\ o.ok => ~i.failed_ /\ InByteCount(o.in) = InByteCount(i) + count
         /\ ExactBy(i, count) =>
              /\ InByteCount(o.in) <= InByteCount(i) + count
              /\ ~o.ok => /\ Dry(o.in)
                          /\ i.failed_
                               \/ InByteCount(o.in) < InByteCount(i) + count
         /\ Dry(i) => Dry(o.in)
         /\ Dry(i) /\ o.ok => count = 0 \/ (i.limited /\ i.limit_ = 0)
<1>0. /\ i \in InStreams /\ i.sound /\ i.position_ = i.offset
      /\ (i.seeks => ~i.previous_seek_failed_)
      /\ (~i.limited => i.limit_ = 0)
      /\ i.backup_bytes_ <= Len(i.buffer_)
      /\ (i.failed_ => i.backup_bytes_ = 0)
      /\ (i.backup_bytes_ > 0 => Loaded(i))
      /\ Hidden(i) = 0
  BY DEF InputOK, Hidden, InStreams
<1>1. /\ i.failed_ \in BOOLEAN /\ i.offset \in Nat /\ i.backup_bytes_ \in Nat
      /\ i.limited \in BOOLEAN /\ i.limit_ \in Int /\ i.seeks \in BOOLEAN
      /\ i.broken \in BOOLEAN /\ i.position_ \in Nat /\ i.short \in BOOLEAN
      /\ Len(i.buffer_) \in Nat /\ Len(file) \in Nat
  BY <1>0, InFields DEF Bytes
<1>2. /\ InByteCount(i) = i.position_ - i.backup_bytes_ - Hidden(i)
      /\ InByteCount(i) \in Int
  BY ByteCountOf
<1>6. o \in SkipBackedUp(i, count)
  BY <1>0, CheckedSkip
<1>3. CASE i.failed_
  <2>1. o = [ok |-> FALSE, data |-> <<>>, in |-> i]
    BY <1>3, <1>6, Zenon DEF SkipBackedUp, Outcome
  <2>2. o.ok = FALSE /\ o.in = i
    BY <2>1
  <2>3. InByteCount(i) >= InByteCount(i)
        /\ (InByteCount(i) <= InByteCount(i) + count) /\ Dry(i)
    BY <1>2, <1>3 DEF Dry
  <2> QED
    BY <1>2, <1>3, <2>2, <2>3
<1>4. CASE ~i.failed_ /\ i.backup_bytes_ >= count
  <2>1. o = [ok |-> TRUE, data |-> <<>>,
             in |-> [i EXCEPT !.backup_bytes_ = @ - count]]
    BY <1>4, <1>6, Zenon DEF SkipBackedUp, Outcome
  <2>2. o.ok = TRUE /\ o.in = [i EXCEPT !.backup_bytes_ = i.backup_bytes_ - count]
    BY <2>1
  <2>3. i.backup_bytes_ - count \in Nat
    BY <1>1, <1>4
  <2>4. o.in \in InStreams
    BY <1>0, <2>2, <2>3 DEF InStreams
  <2>5. /\ o.in.backup_bytes_ = i.backup_bytes_ - count
        /\ o.in.limited = i.limited /\ o.in.limit_ = i.limit_
        /\ o.in.sound = i.sound /\ o.in.position_ = i.position_
        /\ o.in.offset = i.offset /\ o.in.seeks = i.seeks
        /\ o.in.short = i.short /\ o.in.failed_ = i.failed_
        /\ o.in.previous_seek_failed_ = i.previous_seek_failed_
        /\ o.in.buffer_ = i.buffer_ /\ o.in.broken = i.broken
    BY <1>0, <2>2, <2>3 DEF InStreams
  <2>6. Loaded(i) => Loaded(o.in)
    BY <2>5 DEF Loaded
  <2>7. Hidden(o.in) = 0
    BY <1>0, <2>5 DEF Hidden
  <2>8. InputOK(o.in, 0)
    BY <1>0, <1>1, <1>4, <2>3, <2>4, <2>5, <2>6, <2>7 DEF InputOK
  <2>9. InByteCount(o.in) = o.in.position_ - o.in.backup_bytes_ - Hidden(o.in)
        /\ InByteCount(o.in) \in Int
    BY <2>8, ByteCountOf
  <2>10. InByteCount(o.in) = InByteCount(i) + count
    BY <1>0, <1>1, <1>2, <2>5, <2>7, <2>9
  <2>11. Dry(i) => count = 0 \/ (i.limited /\ i.limit_ = 0)
    BY <1>1, <1>4 DEF Dry
  <2>12. Dry(i) => Dry(o.in)
    BY <1>1, <1>4, <2>5, <2>11 DEF Dry
  <2>13. InByteCount(o.in) >= InByteCount(i)
         /\ InByteCount(o.in) <= InByteCount(i) + count
    BY <1>2, <2>10
  <2> QED
    BY <1>4, <2>2, <2>5, <2>8, <2>9, <2>10, <2>11, <2>12, <2>13
<1>5. CASE ~i.failed_ /\ ~(i.backup_bytes_ >= count)
  <2> DEFINE rest == count - i.backup_bytes_
  <2>0. rest \in Nat \ {0}
    BY <1>1, <1>5
  <2>1. PICK p \in FileSkip(i, rest) :
          o = [ok |-> (p[1] = rest), data |-> <<>>,
               in |-> [p[2] EXCEPT !.backup_bytes_ = 0, !.offset = @ + p[1],
                                   !.position_ = @ + p[1]]]
    BY <1>5, <1>6, Zenon DEF SkipBackedUp, Outcome
  <2> HIDE DEF rest
  <2> DEFINE n == p[1]
             q == p[2]
  <2>2. /\ n \in Nat /\ q \in InStreams
        /\ q.seeks = i.seeks /\ q.short = i.short
        /\ q.offset = i.offset /\ q.position_ = i.position_
        /\ q.buffer_ = i.buffer_
        /\ q.failed_ = i.failed_ /\ q.limited = i.limited
        /\ q.limit_ = i.limit_ /\ q.sound = i.sound
        /\ q.seeks => ~q.previous_seek_failed_
        /\ i.seeks => n = rest
        /\ ExactBy(i, rest) => n <= rest
        /\ ~i.seeks /\ n < rest =>
             q.broken \/ i.offset + n >= Len(file)
        /\ ~i.seeks /\ (i.broken \/ i.offset >= Len(file)) =>
             n = 0 /\ (i.broken => q.broken)
    <3>1. i \in InStreams /\ (i.seeks => ~i.previous_seek_failed_)
      BY <1>0
    <3>2. rest \in Nat \ {0} /\ p \in FileSkip(i, rest)
      BY <2>0
    <3> QED
      BY <3>1, <3>2, FileSkipOf, SMTT(30)
  <2> HIDE DEF n, q
  <2>3. i.offset + n \in Nat /\ q.offset + n = i.offset + n
        /\ q.position_ + n = i.offset + n
    BY <1>0, <1>1, <2>2
  <2>4. o.ok = (n = rest)
        /\ o.in = [q EXCEPT !.backup_bytes_ = 0, !.offset = i.offset + n,
                               !.position_ = i.offset + n]
    BY <2>1, <2>3 DEF n, q
  <2>5. o.in \in InStreams
    <3>1. q \in InStreams /\ i.offset + n \in Nat /\ 0 \in Nat
      BY <2>2, <2>3
    <3> QED
      BY <2>4, <3>1 DEF InStreams
  <2>6. /\ o.in.backup_bytes_ = 0
        /\ o.in.limited = i.limited /\ o.in.limit_ = i.limit_
        /\ o.in.sound = i.sound /\ o.in.position_ = i.offset + n
        /\ o.in.offset = i.offset + n /\ o.in.seeks = i.seeks
        /\ o.in.short = i.short /\ o.in.failed_ = i.failed_
        /\ o.in.previous_seek_failed_ = q.previous_seek_failed_
        /\ o.in.buffer_ = i.buffer_ /\ o.in.broken = q.broken
    BY <2>2, <2>3, <2>4 DEF InStreams
  <2>7. Hidden(o.in) = 0
    BY <1>0, <2>6 DEF Hidden
  <2>8. InputOK(o.in, 0)
    BY <1>0, <1>1, <1>5, <2>2, <2>5, <2>6, <2>7 DEF InputOK
  <2>9. InByteCount(o.in) = o.in.position_ - o.in.backup_bytes_ - Hidden(o.in)
        /\ InByteCount(o.in) \in Int
    BY <2>8, ByteCountOf
  <2>10. InByteCount(o.in) = InByteCount(i) + i.backup_bytes_ + n
         /\ count = i.backup_bytes_ + rest
    BY <1>0, <1>1, <1>2, <2>0, <2>2, <2>6, <2>7, <2>9 DEF rest
  <2>11. /\ InByteCount(o.in) >= InByteCount(i)
         /\ n = rest => InByteCount(o.in) = InByteCount(i) + count
         /\ n <= rest => InByteCount(o.in) <= InByteCount(i) + count
         /\ n < rest => InByteCount(o.in) < InByteCount(i) + count
         /\ rest <= count
    <3>1. /\ n \in Nat /\ rest \in Nat /\ i.backup_bytes_ \in Nat
          /\ InByteCount(i) \in Int /\ count \in Nat
      BY <1>1, <1>2, <2>0, <2>2
    <3> QED
      BY <2>10, <3>1
  <2>12. ExactBy(i, count) => n <= rest
    <3>1. count \in Nat /\ rest \in Nat /\ rest <= count
      BY <1>1, <2>0, <2>11
    <3>2. ExactBy(i, count) => ExactBy(i, rest)
      BY <3>1, JunkSizeAssumption DEF ExactBy
    <3> QED
      BY <2>2, <3>2
  <2>13. (n = rest) \in BOOLEAN /\ (n <= rest => n = rest \/ n < rest)
    BY <2>0, <2>2
  <2>14. n < rest => Dry(o.in)
    BY <2>0, <2>2, <2>6, <2>13 DEF Dry
  <2>15. i.limited /\ i.limit_ <= 0 => i.limited /\ i.limit_ = 0 /\ Dry(o.in)
    BY <1>1, <2>6 DEF Dry
  <2>16. ~i.seeks /\ (i.broken \/ i.offset >= Len(file)) =>
           n # rest /\ Dry(o.in)
    BY <1>1, <2>0, <2>2, <2>6 DEF Dry
  <2>17. Dry(i) => Dry(o.in) /\ (n = rest => i.limited /\ i.limit_ = 0)
    BY <1>5, <2>15, <2>16 DEF Dry
  <2>18. /\ o.ok \in BOOLEAN /\ (o.ok <=> n = rest)
    BY <2>4, <2>13
  <2> QED
    BY <1>5, <2>6, <2>8, <2>9, <2>11, <2>12, <2>13, <2>14, <2>17, <2>18
<1> QED
  BY <1>1, <1>3, <1>4, <1>5

\* What Skip() does to the input, with or without a LimitingInputStream.
LEMMA InSkipOf ==
  ASSUME file \in Bytes, NEW i, InputOK(i, 0),
         NEW count \in Nat, NEW o \in InSkip(i, count)
  PROVE  /\ o.ok \in BOOLEAN /\ InputOK(o.in, 0)
         /\ o.in.limited = i.limited
         /\ o.in.seeks = i.seeks /\ o.in.short = i.short
         /\ o.in.failed_ = i.failed_
         /\ InByteCount(o.in) \in Int /\ InByteCount(o.in) >= InByteCount(i)
         /\ o.ok => /\ ~i.failed_
                    /\ InByteCount(o.in) = InByteCount(i) + count
                    /\ i.limited => /\ i.limit_ >= count
                                    /\ EndOf(o.in) = EndOf(i)
         /\ ExactBy(i, count) =>
              /\ InByteCount(o.in) <= InByteCount(i) + count
              /\ ~o.ok => /\ Dry(o.in)
                          /\ \/ i.failed_
                             \/ InByteCount(o.in) < InByteCount(i) + count
                             \/ count = 0 /\ o.in = i
         /\ Dry(i) => Dry(o.in)
         /\ Dry(i) /\ o.ok => count = 0
<1>0. /\ i \in InStreams /\ (~i.limited => i.limit_ = 0)
  BY DEF InputOK
<1>1. /\ i.failed_ \in BOOLEAN /\ i.limited \in BOOLEAN /\ i.limit_ \in Int
      /\ i.position_ \in Nat /\ i.backup_bytes_ \in Nat
  BY <1>0, InFields
<1>2. InByteCount(i) \in Int /\ EndOf(i) \in Int
      /\ EndOf(i) = InByteCount(i) + (IF i.limit_ < 0 THEN 0 ELSE i.limit_)
  BY ByteCountOf
<1>3. CASE ~i.limited
  <2>1. o \in AdaptorSkip(i, count) /\ i.limit_ >= 0
    BY <1>0, <1>3 DEF InSkip
  <2> QED
    BY <1>3, <2>1, AdaptorSkipOf
<1>4. CASE i.limited /\ count <= i.limit_
  <2>1. PICK a \in AdaptorSkip(i, count) :
          o = IF a.ok THEN [a EXCEPT !.in.limit_ = @ - count] ELSE a
    BY <1>4, Zenon DEF InSkip
  <2>2. i.limit_ >= 0
    BY <1>1, <1>4
  <2>3. /\ a.ok \in BOOLEAN /\ InputOK(a.in, 0)
        /\ a.in.limited = i.limited /\ a.in.limit_ = i.limit_
        /\ a.in.seeks = i.seeks /\ a.in.short = i.short
        /\ a.in.failed_ = i.failed_
        /\ InByteCount(a.in) \in Int /\ InByteCount(a.in) >= InByteCount(i)
        /\ a.ok => ~i.failed_ /\ InByteCount(a.in) = InByteCount(i) + count
        /\ ExactBy(i, count) =>
             /\ InByteCount(a.in) <= InByteCount(i) + count
             /\ ~a.ok => /\ Dry(a.in)
                         /\ i.failed_
                              \/ InByteCount(a.in) < InByteCount(i) + count
        /\ Dry(i) => Dry(a.in)
        /\ Dry(i) /\ a.ok => count = 0 \/ (i.limited /\ i.limit_ = 0)
    BY <2>2, AdaptorSkipOf
  <2>4. CASE ~a.ok
    BY <1>4, <2>1, <2>3, <2>4
  <2>5. CASE a.ok
    <3> DEFINE x == [a.in EXCEPT !.limit_ = @ - count]
    <3>1. o.ok = TRUE /\ o.in = x
      <4>1. a \in {[ok |-> a.ok, data |-> a.data, in |-> a.in]}
        <5>1. \E ok, data, in2 : a = [ok |-> ok, data |-> data, in |-> in2]
          BY Zenon DEF AdaptorSkip, SkipBackedUp, Outcome
        <5> QED
          BY <5>1
      <4>2. a = [ok |-> a.ok, data |-> a.data, in |-> a.in]
        BY <4>1
      <4>3. o = [a EXCEPT !.in.limit_ = @ - count]
        BY <2>1, <2>5
      <4> HIDE DEF x
      <4>4. o = [ok |-> a.ok, data |-> a.data, in |-> x]
        BY <4>2, <4>3 DEF x
      <4> QED
        BY <2>3, <2>5, <4>4
    <3> HIDE DEF x
    <3>2. a.in \in InStreams /\ i.limit_ - count \in Nat
      <4>1. i.limit_ - count \in Nat
        BY <1>1, <1>4
      <4> QED
        BY <2>3, <4>1 DEF InputOK
    <3>3. x = [a.in EXCEPT !.limit_ = i.limit_ - count]
      BY <2>3 DEF x
    <3>m. x \in InStreams
      BY <3>2, <3>3, i.limit_ - count \in Int DEF InStreams
    <3>4. /\ x.backup_bytes_ = a.in.backup_bytes_
          /\ x.limited = a.in.limited /\ x.limit_ = i.limit_ - count
          /\ x.sound = a.in.sound /\ x.position_ = a.in.position_
          /\ x.offset = a.in.offset /\ x.seeks = a.in.seeks
          /\ x.short = a.in.short /\ x.failed_ = a.in.failed_
          /\ x.previous_seek_failed_ = a.in.previous_seek_failed_
          /\ x.buffer_ = a.in.buffer_ /\ x.broken = a.in.broken
      BY <3>2, <3>3, <3>m DEF InStreams
    <3>5. Hidden(x) = 0 /\ Hidden(a.in) = 0
      <4>1. ~(x.limit_ < 0)
        BY <3>2, <3>4
      <4>2. ~(a.in.limit_ < 0)
        BY <1>1, <2>2, <2>3
      <4> QED
        BY <4>1, <4>2 DEF Hidden
    <3>6. Loaded(a.in) => Loaded(x)
      BY <3>4 DEF Loaded
    <3>7. InputOK(x, 0)
      BY <1>4, <2>3, <3>m, <3>4, <3>5, <3>6 DEF InputOK
    <3>8. InByteCount(x) = InByteCount(a.in)
      <4>1. /\ InByteCount(x) = x.position_ - x.backup_bytes_ - Hidden(x)
            /\ InByteCount(a.in) = a.in.position_ - a.in.backup_bytes_
                                     - Hidden(a.in)
        BY <2>3, <3>7, ByteCountOf
      <4> QED
        BY <3>4, <3>5, <4>1
    <3>9. EndOf(x) = EndOf(i)
      <4>1. EndOf(x) = InByteCount(x)
                         + (IF x.limit_ < 0 THEN 0 ELSE x.limit_)
        BY <3>7, ByteCountOf
      <4>2. EndOf(x) = InByteCount(x) + (i.limit_ - count)
            /\ EndOf(i) = InByteCount(i) + i.limit_
        <5>1. ~(x.limit_ < 0) /\ x.limit_ = i.limit_ - count
          BY <3>2, <3>4
        <5>2. ~(i.limit_ < 0)
          BY <1>1, <2>2
        <5> QED
          BY <1>2, <4>1, <5>1, <5>2
      <4> QED
        BY <1>1, <1>2, <2>3, <2>5, <3>8, <4>2
    <3>10. Dry(i) => count = 0
      BY <1>1, <1>4, <2>3, <2>5
    <3>11. Dry(a.in) => Dry(x)
      BY <1>1, <2>2, <2>3, <3>2, <3>4 DEF Dry
    <3> QED
      BY <1>4, <2>3, <2>5, <3>1, <3>4, <3>7, <3>8, <3>9, <3>10, <3>11
  <2> QED
    BY <2>4, <2>5
<1>5. CASE i.limited /\ ~(count <= i.limit_) /\ i.limit_ < 0
  <2>1. o = [ok |-> FALSE, data |-> <<>>, in |-> i]
    BY <1>5, Zenon DEF InSkip, Outcome
  <2>2. o.ok = FALSE /\ o.in = i
    BY <2>1
  <2>3. Dry(i) /\ (InByteCount(i) < InByteCount(i) + count \/ count = 0)
        /\ InByteCount(i) <= InByteCount(i) + count
        /\ InByteCount(i) >= InByteCount(i)
    BY <1>1, <1>2, <1>5 DEF Dry
  <2> QED
    BY <1>2, <2>2, <2>3
<1>6. CASE i.limited /\ ~(count <= i.limit_) /\ ~(i.limit_ < 0)
  <2>0. i.limit_ \in Nat /\ i.limit_ >= 0 /\ i.limit_ < count
    BY <1>1, <1>6
  <2>1. PICK a \in AdaptorSkip(i, i.limit_) :
          o = [ok |-> FALSE, data |-> <<>>, in |-> [a.in EXCEPT !.limit_ = 0]]
    BY <1>6, Zenon DEF InSkip, Outcome
  <2>3. /\ a.ok \in BOOLEAN /\ InputOK(a.in, 0)
        /\ a.in.limited = i.limited /\ a.in.limit_ = i.limit_
        /\ a.in.seeks = i.seeks /\ a.in.short = i.short
        /\ a.in.failed_ = i.failed_
        /\ InByteCount(a.in) \in Int /\ InByteCount(a.in) >= InByteCount(i)
        /\ ExactBy(i, i.limit_) =>
             InByteCount(a.in) <= InByteCount(i) + i.limit_
    BY <2>0, AdaptorSkipOf
  <2> DEFINE x == [a.in EXCEPT !.limit_ = 0]
  <2>4. o.ok = FALSE /\ o.in = x
    BY <2>1
  <2> HIDE DEF x
  <2>5. a.in \in InStreams
    BY <2>3 DEF InputOK
  <2>m. x \in InStreams
    BY <2>5, 0 \in Int DEF InStreams, x
  <2>6. /\ x.backup_bytes_ = a.in.backup_bytes_
        /\ x.limited = a.in.limited /\ x.limit_ = 0
        /\ x.sound = a.in.sound /\ x.position_ = a.in.position_
        /\ x.offset = a.in.offset /\ x.seeks = a.in.seeks
        /\ x.short = a.in.short /\ x.failed_ = a.in.failed_
        /\ x.previous_seek_failed_ = a.in.previous_seek_failed_
        /\ x.buffer_ = a.in.buffer_ /\ x.broken = a.in.broken
    BY <2>5, <2>m DEF InStreams, x
  <2>7. Hidden(x) = 0 /\ Hidden(a.in) = 0
    BY <2>0, <2>3, <2>6 DEF Hidden
  <2>8. Loaded(a.in) => Loaded(x)
    BY <2>6 DEF Loaded
  <2>9. InputOK(x, 0)
    BY <1>6, <2>3, <2>m, <2>6, <2>7, <2>8 DEF InputOK
  <2>10. InByteCount(x) = InByteCount(a.in)
    <3>1. /\ InByteCount(x) = x.position_ - x.backup_bytes_ - Hidden(x)
          /\ InByteCount(a.in) = a.in.position_ - a.in.backup_bytes_
                                   - Hidden(a.in)
      BY <2>3, <2>9, ByteCountOf
    <3> QED
      BY <2>6, <2>7, <3>1
  <2>11. Dry(x)
    BY <1>6, <2>3, <2>6 DEF Dry
  <2>12. ExactBy(i, count) =>
           /\ InByteCount(x) < InByteCount(i) + count
           /\ InByteCount(x) <= InByteCount(i) + count
    <3>1. ExactBy(i, count) => ExactBy(i, i.limit_)
      BY <2>0, JunkSizeAssumption DEF ExactBy
    <3> QED
      BY <1>2, <2>0, <2>3, <2>10, <3>1
  <2> QED
    BY <2>3, <2>4, <2>6, <2>9, <2>10, <2>11, <2>12
<1> QED
  BY <1>1, <1>3, <1>4, <1>5, <1>6
-----------------------------------------------------------------------------
(* The counts of the reader *)

LEMMA CodedFields ==
  ASSUME NEW c \in CodedInputs
  PROVE  /\ c.open \in BOOLEAN /\ c.base \in Nat /\ c.buffer_ \in Bytes
         /\ c.buffer_size_ \in Nat /\ c.total_bytes_read_ \in Nat
         /\ c.overflow_bytes_ \in Nat /\ c.legitimate_message_end_ \in BOOLEAN
         /\ c.current_limit_ \in Nat /\ c.buffer_size_after_limit_ \in Nat
         /\ c.total_bytes_limit_ \in Nat /\ Len(c.buffer_) \in Nat
         /\ Closest(c) \in Nat
         /\ Closest(c) <= c.current_limit_ /\ Closest(c) <= c.total_bytes_limit_
<1>1. /\ c.open \in BOOLEAN /\ c.base \in Nat /\ c.buffer_ \in Bytes
      /\ c.buffer_size_ \in Nat /\ c.total_bytes_read_ \in Nat
      /\ c.overflow_bytes_ \in Nat /\ c.legitimate_message_end_ \in BOOLEAN
      /\ c.current_limit_ \in Nat /\ c.buffer_size_after_limit_ \in Nat
      /\ c.total_bytes_limit_ \in Nat
  BY DEF CodedInputs
<1>2. Len(c.buffer_) \in Nat
  BY <1>1 DEF Bytes
<1>3. /\ Closest(c) \in Nat
      /\ Closest(c) <= c.current_limit_ /\ Closest(c) <= c.total_bytes_limit_
  BY <1>1 DEF Closest, Least
<1> QED
  BY <1>1, <1>2, <1>3

\* What stands between the reader and the nearest limit is in the buffer, or
\* the limit is beyond all that was read.
LEMMA CountsOf ==
  ASSUME NEW c, CountsOK(c)
  PROVE  /\ Position(c) \in Nat /\ Position(c) <= Closest(c)
         /\ Position(c) + c.buffer_size_ <= Closest(c)
         /\ Position(c) + c.buffer_size_
              = c.total_bytes_read_ - c.buffer_size_after_limit_
         /\ c.buffer_size_after_limit_ > 0 =>
              Position(c) + c.buffer_size_ = Closest(c)
         /\ c.buffer_size_after_limit_ = 0 => c.total_bytes_read_ <= Closest(c)
         /\ c.overflow_bytes_ > 0 => c.buffer_size_after_limit_ > 0
         /\ c.buffer_size_ <= Len(c.buffer_)
<1> DEFINE size == c.buffer_size_
           after == c.buffer_size_after_limit_
           over == c.overflow_bytes_
           read == c.total_bytes_read_
           closest == Closest(c)
           position == Position(c)
<1>1. /\ size \in Nat /\ after \in Nat /\ over \in Nat /\ read \in Nat
      /\ closest \in Nat
  BY CodedFields DEF CountsOK
<1>2. position = read - (size + after)
  BY DEF Position
<1>3. /\ (over > 0 => read = IntMax)
      /\ after = Greatest(0, read - closest)
      /\ position \in 0 .. closest
  BY DEF CountsOK
<1>l. Len(c.buffer_) = size + after + over
  BY DEF CountsOK
<1>4. closest < IntMax
  <2>1. c.total_bytes_limit_ < IntMax /\ c \in CodedInputs
    BY DEF CountsOK
  <2>2. c.total_bytes_limit_ \in Nat /\ closest <= c.total_bytes_limit_
    BY <2>1, CodedFields
  <2> HIDE DEF closest
  <2> QED
    BY <1>1, <2>1, <2>2, IntMaxAssumption
<1> HIDE DEF size, after, over, read, closest, position
<1>5. \/ after = 0 /\ read <= closest
      \/ after = read - closest /\ read > closest
  BY <1>1, <1>3 DEF Greatest
<1>6. over > 0 => after > 0
  BY <1>1, <1>3, <1>4, <1>5, IntMaxAssumption
<1>7. /\ position \in Nat /\ position <= closest
      /\ position + size = read - after
  BY <1>1, <1>2, <1>3
<1>8. after = 0 => position + size <= closest /\ read <= closest
  BY <1>1, <1>5, <1>7
<1>9. after > 0 => position + size = closest
  BY <1>1, <1>5, <1>7
<1>10. position + size <= closest
  BY <1>1, <1>7, <1>8, <1>9
<1>11. size <= Len(c.buffer_)
  BY <1>1, <1>l
<1> QED
  BY <1>6, <1>7, <1>8, <1>9, <1>10, <1>11
     DEF size, after, over, read, closest, position

\* RecomputeBufferLimits() moves the border between the bytes before the
\* nearest limit and those after it, and nothing else.
LEMMA RecomputeOf ==
  ASSUME NEW c \in CodedInputs,
         Len(c.buffer_)
           = c.buffer_size_ + c.buffer_size_after_limit_ + c.overflow_bytes_,
         c.total_bytes_read_ <= IntMax, c.current_limit_ <= IntMax,
         c.total_bytes_limit_ < IntMax,
         c.overflow_bytes_ > 0 => c.total_bytes_read_ = IntMax,
         Position(c) \in 0 .. Closest(c),
         NEW d, d = RecomputeBufferLimits(c)
  PROVE  /\ CountsOK(d) /\ Position(d) = Position(c)
         /\ d.open = c.open /\ d.base = c.base /\ d.buffer_ = c.buffer_
         /\ d.total_bytes_read_ = c.total_bytes_read_
         /\ d.overflow_bytes_ = c.overflow_bytes_
         /\ d.legitimate_message_end_ = c.legitimate_message_end_
         /\ d.current_limit_ = c.current_limit_
         /\ d.total_bytes_limit_ = c.total_bytes_limit_
<1> DEFINE after == Greatest(0, c.total_bytes_read_ - Closest(c))
           size == c.buffer_size_ + c.buffer_size_after_limit_ - after
<1>1. /\ c.buffer_size_ \in Nat /\ c.total_bytes_read_ \in Nat
      /\ c.overflow_bytes_ \in Nat /\ c.current_limit_ \in Nat
      /\ c.buffer_size_after_limit_ \in Nat /\ c.total_bytes_limit_ \in Nat
      /\ Len(c.buffer_) \in Nat /\ Closest(c) \in Nat
  BY CodedFields
<1>2. Position(c) = c.total_bytes_read_
                      - (c.buffer_size_ + c.buffer_size_after_limit_)
  BY DEF Position
<1>3. /\ after \in Nat /\ size \in Nat
      /\ size + after = c.buffer_size_ + c.buffer_size_after_limit_
  <2>1. c.buffer_size_ \in Nat /\ c.buffer_size_after_limit_ \in Nat
    BY <1>1
  <2>2. c.total_bytes_read_ \in Nat /\ Closest(c) \in Nat
    BY <1>1
  <2>3. after \in Nat
        /\ (after = 0 \/ after = c.total_bytes_read_ - Closest(c))
    BY <2>2 DEF Greatest
  <2>4. Position(c) <= Closest(c) /\ Position(c) \in Int
    BY <2>2
  <2> HIDE DEF after
  <2>5. after <= c.buffer_size_ + c.buffer_size_after_limit_
    BY <1>2, <2>1, <2>2, <2>3, <2>4
  <2> QED
    BY <2>1, <2>3, <2>5
<1>4. d = [c EXCEPT !.buffer_size_after_limit_ = after, !.buffer_size_ = size]
  BY <1>1, Zenon DEF RecomputeBufferLimits
<1> HIDE DEF after, size
<1>5. d \in CodedInputs
  BY <1>3, <1>4 DEF CodedInputs
<1>6. /\ d.open = c.open /\ d.base = c.base /\ d.buffer_ = c.buffer_
      /\ d.total_bytes_read_ = c.total_bytes_read_
      /\ d.overflow_bytes_ = c.overflow_bytes_
      /\ d.legitimate_message_end_ = c.legitimate_message_end_
      /\ d.current_limit_ = c.current_limit_
      /\ d.total_bytes_limit_ = c.total_bytes_limit_
      /\ d.buffer_size_ = size /\ d.buffer_size_after_limit_ = after
  BY <1>4, <1>5 DEF CodedInputs
<1>7. Closest(d) = Closest(c)
  BY <1>6 DEF Closest
<1>8. Position(d) = Position(c)
  BY <1>1, <1>2, <1>3, <1>6 DEF Position
<1>9. Len(d.buffer_)
        = d.buffer_size_ + d.buffer_size_after_limit_ + d.overflow_bytes_
  BY <1>1, <1>3, <1>6
<1>10. d.buffer_size_after_limit_
         = Greatest(0, d.total_bytes_read_ - Closest(d))
  BY <1>6, <1>7 DEF after
<1> QED
  BY <1>5, <1>6, <1>7, <1>8, <1>9, <1>10 DEF CountsOK

Shifted(c, d, n) ==
  \A j \in 1 .. Len(d.buffer_) : d.buffer_[j] = c.buffer_[n + j]

\* Advance() consumes bytes before the nearest limit.
LEMMA AdvanceOf ==
  ASSUME NEW c, CountsOK(c), NEW n \in 0 .. c.buffer_size_,
         NEW d, d = Advance(c, n)
  PROVE  /\ CountsOK(d) /\ Position(d) = Position(c) + n
         /\ d.open = c.open /\ d.base = c.base
         /\ Len(d.buffer_) = Len(c.buffer_) - n
         /\ Shifted(c, d, n)
         /\ d.buffer_size_ = c.buffer_size_ - n
         /\ d.total_bytes_read_ = c.total_bytes_read_
         /\ d.overflow_bytes_ = c.overflow_bytes_
         /\ d.legitimate_message_end_ = c.legitimate_message_end_
         /\ d.current_limit_ = c.current_limit_
         /\ d.buffer_size_after_limit_ = c.buffer_size_after_limit_
         /\ d.total_bytes_limit_ = c.total_bytes_limit_
<1>0. c \in CodedInputs
  BY DEF CountsOK
<1>1. /\ c.buffer_size_ \in Nat /\ c.total_bytes_read_ \in Nat
      /\ c.overflow_bytes_ \in Nat /\ c.current_limit_ \in Nat
      /\ c.buffer_size_after_limit_ \in Nat /\ c.total_bytes_limit_ \in Nat
      /\ Len(c.buffer_) \in Nat /\ Closest(c) \in Nat /\ c.buffer_ \in Bytes
  BY <1>0, CodedFields
<1>2. /\ Position(c) \in Nat /\ Position(c) + c.buffer_size_ <= Closest(c)
      /\ c.buffer_size_ <= Len(c.buffer_)
  BY CountsOf
<1>3. n \in Nat /\ n \in 0 .. Len(c.buffer_) /\ n <= c.buffer_size_
  BY <1>1, <1>2
<1> DEFINE rest == Drop(c.buffer_, n)
           size == c.buffer_size_ - n
<1>4. /\ rest \in Bytes /\ Len(rest) = Len(c.buffer_) - n
      /\ \A j \in 1 .. Len(rest) : rest[j] = c.buffer_[n + j]
  <2> HIDE DEF rest
  <2>1. c.buffer_ \in Seq(Nat)
    BY <1>1 DEF Bytes
  <2>2. /\ Drop(c.buffer_, n) \in Seq(Nat)
        /\ Len(Drop(c.buffer_, n)) = Len(c.buffer_) - n
        /\ \A j \in 1 .. Len(c.buffer_) - n :
             Drop(c.buffer_, n)[j] = c.buffer_[n + j]
    BY <1>3, <2>1, DropOf
  <2> QED
    BY <2>2 DEF rest, Bytes
<1>5. size \in Nat
  BY <1>1, <1>3
<1>6. d = [c EXCEPT !.buffer_ = rest, !.buffer_size_ = size]
  BY Zenon DEF Advance
<1> HIDE DEF rest, size
<1>7. d \in CodedInputs
  BY <1>0, <1>4, <1>5, <1>6 DEF CodedInputs
<1>8. /\ d.open = c.open /\ d.base = c.base /\ d.buffer_ = rest
      /\ d.buffer_size_ = size
      /\ d.total_bytes_read_ = c.total_bytes_read_
      /\ d.overflow_bytes_ = c.overflow_bytes_
      /\ d.legitimate_message_end_ = c.legitimate_message_end_
      /\ d.current_limit_ = c.current_limit_
      /\ d.buffer_size_after_limit_ = c.buffer_size_after_limit_
      /\ d.total_bytes_limit_ = c.total_bytes_limit_
  BY <1>0, <1>6, <1>7 DEF CodedInputs
<1>9. Closest(d) = Closest(c)
  BY <1>8 DEF Closest
<1>10. size = c.buffer_size_ - n
  BY DEF size
<1>11. Position(d) = Position(c) + n
  <2>1. /\ c.buffer_size_ \in Nat /\ c.total_bytes_read_ \in Nat
        /\ c.buffer_size_after_limit_ \in Nat /\ n \in Nat
    BY <1>1, <1>3
  <2>2. /\ d.buffer_size_ = c.buffer_size_ - n
        /\ d.total_bytes_read_ = c.total_bytes_read_
        /\ d.buffer_size_after_limit_ = c.buffer_size_after_limit_
    BY <1>8, <1>10
  <2> QED
    BY <2>1, <2>2 DEF Position
<1>12. Position(d) \in 0 .. Closest(d)
  <2>1. c.buffer_size_ \in Nat /\ Closest(c) \in Nat
    BY <1>1
  <2> QED
    BY <1>2, <1>3, <1>9, <1>11, <2>1
<1>13. Len(d.buffer_)
         = d.buffer_size_ + d.buffer_size_after_limit_ + d.overflow_bytes_
  <2>1. Len(c.buffer_)
          = c.buffer_size_ + c.buffer_size_after_limit_ + c.overflow_bytes_
    BY DEF CountsOK
  <2>2. /\ c.buffer_size_ \in Nat /\ c.buffer_size_after_limit_ \in Nat
        /\ c.overflow_bytes_ \in Nat /\ Len(c.buffer_) \in Nat
    BY <1>1
  <2>3. /\ Len(d.buffer_) = Len(c.buffer_) - n
        /\ d.buffer_size_ = c.buffer_size_ - n
        /\ d.buffer_size_after_limit_ = c.buffer_size_after_limit_
        /\ d.overflow_bytes_ = c.overflow_bytes_
    BY <1>4, <1>8, <1>10
  <2> QED
    BY <1>3, <2>1, <2>2, <2>3
<1>14. CountsOK(d)
  <2>1. /\ c.total_bytes_read_ <= IntMax
        /\ c.current_limit_ <= IntMax /\ c.total_bytes_limit_ < IntMax
        /\ (c.overflow_bytes_ > 0 => c.total_bytes_read_ = IntMax)
        /\ c.buffer_size_after_limit_
             = Greatest(0, c.total_bytes_read_ - Closest(c))
    BY DEF CountsOK
  <2> QED
    BY <1>7, <1>8, <1>9, <1>12, <1>13, <2>1 DEF CountsOK
<1>15. Shifted(c, d, n)
  BY <1>4, <1>8 DEF Shifted
<1> QED
  BY <1>4, <1>8, <1>10, <1>11, <1>14, <1>15

\* A new block is added to the counts, what is beyond INT_MAX apart.
LEMMA FilledOf ==
  ASSUME NEW c, CountsOK(c), c.buffer_size_after_limit_ = 0,
         c.overflow_bytes_ = 0, NEW data \in Bytes, NEW d, d = Filled(c, data)
  PROVE  /\ CountsOK(d) /\ Position(d) = Position(c) + c.buffer_size_
         /\ d.open = c.open /\ d.base = c.base /\ d.buffer_ = data
         /\ d.total_bytes_read_ + d.overflow_bytes_
              = c.total_bytes_read_ + Len(data)
         /\ d.legitimate_message_end_ = c.legitimate_message_end_
         /\ d.current_limit_ = c.current_limit_
         /\ d.total_bytes_limit_ = c.total_bytes_limit_
<1> DEFINE read == c.total_bytes_read_
           len == Len(data)
           over == Greatest(0, read + len - IntMax)
           size == len - over
           total == read + size
           e == [c EXCEPT !.buffer_ = data, !.buffer_size_ = size,
                          !.total_bytes_read_ = total, !.overflow_bytes_ = over]
<1>1. c \in CodedInputs /\ read <= IntMax
  BY DEF CountsOK
<1>2. read \in Nat /\ len \in Nat /\ IntMax \in Nat
  BY <1>1, CodedFields, IntMaxAssumption DEF Bytes
<1>3. /\ Position(c) + c.buffer_size_ = read
      /\ read <= Closest(c) /\ Closest(c) \in Nat
  <2>1. /\ Position(c) + c.buffer_size_
             = c.total_bytes_read_ - c.buffer_size_after_limit_
        /\ c.total_bytes_read_ <= Closest(c) /\ Closest(c) \in Nat
    BY <1>1, CountsOf, CodedFields
  <2> QED
    BY <1>2, <2>1
<1>4. d = RecomputeBufferLimits(e)
  BY Zenon DEF Filled
<1> HIDE DEF read, len
<1>5. /\ over \in Nat /\ size \in Nat /\ over + size = len
      /\ total \in Nat /\ total <= IntMax /\ (over > 0 => total = IntMax)
      /\ total + over = read + len
  BY <1>1, <1>2 DEF Greatest
<1> HIDE DEF over, size, total, e
<1>6. e \in CodedInputs
  BY <1>1, <1>5 DEF CodedInputs, e
<1>7. /\ e.open = c.open /\ e.base = c.base /\ e.buffer_ = data
      /\ e.buffer_size_ = size /\ e.total_bytes_read_ = total
      /\ e.overflow_bytes_ = over
      /\ e.legitimate_message_end_ = c.legitimate_message_end_
      /\ e.current_limit_ = c.current_limit_
      /\ e.buffer_size_after_limit_ = 0
      /\ e.total_bytes_limit_ = c.total_bytes_limit_
  BY <1>1, <1>6 DEF CodedInputs, e
<1>8. Closest(e) = Closest(c)
  BY <1>7 DEF Closest
<1>9. Position(e) = read
  <2>1. total = read + size
    BY DEF total
  <2>2. e.buffer_size_ = size /\ e.total_bytes_read_ = total
        /\ e.buffer_size_after_limit_ = 0
    BY <1>7
  <2> QED
    BY <1>2, <1>5, <2>1, <2>2 DEF Position
<1>10. Len(e.buffer_)
         = e.buffer_size_ + e.buffer_size_after_limit_ + e.overflow_bytes_
  <2>1. Len(e.buffer_) = len
    BY <1>7 DEF len
  <2>2. e.buffer_size_ = size /\ e.overflow_bytes_ = over
        /\ e.buffer_size_after_limit_ = 0
    BY <1>7
  <2> QED
    BY <1>5, <2>1, <2>2
<1>11. Position(e) \in 0 .. Closest(e)
  BY <1>2, <1>3, <1>8, <1>9
<1>12. /\ e.total_bytes_read_ <= IntMax /\ e.current_limit_ <= IntMax
       /\ e.total_bytes_limit_ < IntMax
       /\ (e.overflow_bytes_ > 0 => e.total_bytes_read_ = IntMax)
  <2>1. c.current_limit_ <= IntMax /\ c.total_bytes_limit_ < IntMax
    BY DEF CountsOK
  <2> QED
    BY <1>5, <1>7, <2>1
<1>13. /\ CountsOK(d) /\ Position(d) = Position(e)
       /\ d.open = e.open /\ d.base = e.base /\ d.buffer_ = e.buffer_
       /\ d.total_bytes_read_ = e.total_bytes_read_
       /\ d.overflow_bytes_ = e.overflow_bytes_
       /\ d.legitimate_message_end_ = e.legitimate_message_end_
       /\ d.current_limit_ = e.current_limit_
       /\ d.total_bytes_limit_ = e.total_bytes_limit_
  BY <1>4, <1>6, <1>10, <1>11, <1>12, RecomputeOf
<1>14. d.total_bytes_read_ + d.overflow_bytes_ = c.total_bytes_read_ + Len(data)
  BY <1>5, <1>7, <1>13 DEF read, len
<1> QED
  BY <1>3, <1>7, <1>9, <1>13, <1>14
-----------------------------------------------------------------------------
(* Where the reader stands                                                    *)

LEMMA HeldOf ==
  ASSUME file \in Bytes, NEW c, NEW i, Held(c, i)
  PROVE  /\ At(c, i) \in Nat /\ InByteCount(i) \in Nat /\ Lag(c, i) \in Int
         /\ Len(c.buffer_) > 0 => InByteCount(i) <= Len(file)
         /\ \A j \in 1 .. Len(c.buffer_) : c.buffer_[j] = file[At(c, i) + j]
         /\ i.failed_ => c.buffer_ = <<>>
         /\ At(c, i) + Len(c.buffer_) = InByteCount(i)
<1>1. CountsOK(c) /\ c \in CodedInputs /\ InputOK(i, Len(c.buffer_))
      /\ i \in InStreams
  BY DEF Held, CountsOK, InputOK
<1>2. /\ Len(c.buffer_) \in Nat /\ c.base \in Nat
      /\ c.total_bytes_read_ \in Nat /\ c.overflow_bytes_ \in Nat
      /\ c.buffer_ \in Bytes
  BY <1>1, CodedFields
<1>3. /\ InByteCount(i) = i.position_ - i.backup_bytes_ - Hidden(i)
      /\ InByteCount(i) \in Int /\ InByteCount(i) - Len(c.buffer_) >= 0
  BY <1>1, <1>2, ByteCountOf
<1>4. /\ At(c, i) \in Nat /\ InByteCount(i) \in Nat
      /\ At(c, i) + Len(c.buffer_) = InByteCount(i)
  BY <1>2, <1>3 DEF At
<1>5. Lag(c, i) \in Int
  <2>1. c.base \in Nat /\ c.total_bytes_read_ \in Nat
        /\ c.overflow_bytes_ \in Nat
    BY <1>2
  <2>2. InByteCount(i) \in Nat
    BY <1>4
  <2> QED
    BY <2>1, <2>2 DEF Lag
<1>6. /\ i.position_ = i.offset /\ Hidden(i) \in Nat /\ i.backup_bytes_ \in Nat
      /\ i.offset \in Nat
  BY <1>1, InFields DEF InputOK
<1>7. ASSUME Len(c.buffer_) > 0 PROVE InByteCount(i) <= Len(file)
  <2>1. Hidden(i) + Len(c.buffer_) + i.backup_bytes_ > 0
    BY <1>2, <1>6, <1>7
  <2>2. Loaded(i)
    BY <1>1, <2>1 DEF InputOK
  <2>3. i.offset <= Len(file) /\ Len(file) \in Nat
    BY <2>2 DEF Loaded, Bytes
  <2> QED
    BY <1>3, <1>6, <2>3
<1>8. ASSUME i.failed_ PROVE c.buffer_ = <<>>
  <2>1. Hidden(i) + Len(c.buffer_) = 0
    BY <1>1, <1>8 DEF InputOK
  <2>2. Len(c.buffer_) = 0
    BY <1>2, <1>6, <2>1
  <2> QED
    BY <1>2, <2>2, EmptySeq DEF Bytes
<1>9. \A j \in 1 .. Len(c.buffer_) : c.buffer_[j] = file[At(c, i) + j]
  BY DEF Held, Holds, At
<1> QED
  BY <1>4, <1>5, <1>7, <1>8, <1>9

SameReader(c, d) ==
  /\ d.open = c.open /\ d.base = c.base
  /\ d.legitimate_message_end_ = c.legitimate_message_end_
  /\ d.current_limit_ = c.current_limit_
  /\ d.total_bytes_limit_ = c.total_bytes_limit_

SameInput(i, k) ==
  /\ k.limited = i.limited /\ k.seeks = i.seeks /\ k.short = i.short
  /\ i.limited => EndOf(k) = EndOf(i)

LEMMA NoBytes == ASSUME NEW b \in Bytes, Len(b) = 0 PROVE b = <<>>
BY EmptySeq DEF Bytes

\* The less the reader holds, the less it asks of the input.
LEMMA FewerHeld ==
  ASSUME NEW i, NEW n \in Nat, InputOK(i, n), NEW m \in 0 .. n
  PROVE  InputOK(i, m)
<1>1. i \in InStreams /\ Hidden(i) \in Nat /\ i.backup_bytes_ \in Nat
      /\ Len(i.buffer_) \in Nat
  BY InFields DEF InputOK
<1>2. /\ Hidden(i) + n <= Len(i.buffer_)
      /\ Hidden(i) + n > 0 => i.backup_bytes_ = 0
      /\ i.failed_ => Hidden(i) + n = 0 /\ i.backup_bytes_ = 0
      /\ Hidden(i) + n + i.backup_bytes_ > 0 => Loaded(i)
  BY DEF InputOK
<1>3. m \in Nat /\ m <= n
  OBVIOUS
<1>4. /\ Hidden(i) + m <= Len(i.buffer_)
      /\ Hidden(i) + m > 0 => i.backup_bytes_ = 0
      /\ i.failed_ => Hidden(i) + m = 0 /\ i.backup_bytes_ = 0
      /\ Hidden(i) + m + i.backup_bytes_ > 0 => Loaded(i)
  BY <1>1, <1>2, <1>3
<1> QED
  BY <1>4 DEF InputOK

LEMMA AdvanceHeld ==
  ASSUME file \in Bytes, NEW c, NEW i, Held(c, i),
         NEW n \in 0 .. c.buffer_size_, NEW d, d = Advance(c, n)
  PROVE  /\ Held(d, i) /\ SameReader(c, d)
         /\ At(d, i) = At(c, i) + n /\ Lag(d, i) = Lag(c, i)
         /\ Position(d) = Position(c) + n
         /\ d.buffer_size_ = c.buffer_size_ - n
         /\ d.buffer_size_after_limit_ = c.buffer_size_after_limit_
         /\ c.buffer_ = <<>> => d.buffer_ = <<>>
<1>1. CountsOK(c) /\ c \in CodedInputs /\ InputOK(i, Len(c.buffer_))
  BY DEF Held, CountsOK
<1>2. /\ c.buffer_size_ \in Nat /\ Len(c.buffer_) \in Nat
      /\ c.buffer_size_ <= Len(c.buffer_) /\ n \in Nat /\ n <= c.buffer_size_
  BY <1>1, CodedFields, CountsOf
<1>3. /\ CountsOK(d) /\ Position(d) = Position(c) + n
      /\ d.open = c.open /\ d.base = c.base
      /\ Len(d.buffer_) = Len(c.buffer_) - n
      /\ Shifted(c, d, n)
      /\ d.buffer_size_ = c.buffer_size_ - n
      /\ d.total_bytes_read_ = c.total_bytes_read_
      /\ d.overflow_bytes_ = c.overflow_bytes_
      /\ d.legitimate_message_end_ = c.legitimate_message_end_
      /\ d.current_limit_ = c.current_limit_
      /\ d.buffer_size_after_limit_ = c.buffer_size_after_limit_
      /\ d.total_bytes_limit_ = c.total_bytes_limit_
  <2>1. CountsOK(c) /\ n \in 0 .. c.buffer_size_
    BY <1>1
  <2> QED
    BY <2>1, AdvanceOf
<1>4. SameReader(c, d)
  BY <1>3 DEF SameReader
<1>5. InputOK(i, Len(d.buffer_))
  <2>1. Len(d.buffer_) \in 0 .. Len(c.buffer_)
    BY <1>2, <1>3
  <2> QED
    BY <1>1, <1>2, <2>1, FewerHeld
<1>6. InByteCount(i) \in Nat
  BY HeldOf
<1>7. At(d, i) = At(c, i) + n
  <2>1. Len(d.buffer_) = Len(c.buffer_) - n
    BY <1>3
  <2> QED
    BY <1>2, <1>6, <2>1 DEF At
<1>8. Lag(d, i) = Lag(c, i)
  BY <1>3 DEF Lag
<1>9. Holds(d, i)
  <2> SUFFICES ASSUME NEW j \in 1 .. Len(d.buffer_)
               PROVE  d.buffer_[j] = file[InByteCount(i) - Len(d.buffer_) + j]
    BY DEF Holds
  <2>1. d.buffer_[j] = c.buffer_[n + j]
    BY <1>3 DEF Shifted
  <2>l. Len(d.buffer_) = Len(c.buffer_) - n
    BY <1>3
  <2>2. n + j \in 1 .. Len(c.buffer_)
        /\ InByteCount(i) - Len(c.buffer_) + (n + j)
             = InByteCount(i) - Len(d.buffer_) + j
    <3>1. Len(c.buffer_) \in Nat /\ n \in Nat /\ n <= Len(c.buffer_)
      BY <1>2
    <3>2. j \in Nat /\ j >= 1 /\ j <= Len(c.buffer_) - n
      BY <2>l, <3>1
    <3> QED
      BY <1>6, <2>l, <3>1, <3>2
  <2>3. c.buffer_[n + j] = file[InByteCount(i) - Len(c.buffer_) + (n + j)]
    BY <2>2 DEF Held, Holds
  <2> QED
    BY <2>1, <2>2, <2>3
<1>10. ASSUME c.buffer_ = <<>> PROVE d.buffer_ = <<>>
  <2>1. Len(d.buffer_) = 0
    <3>1. Len(c.buffer_) = 0
      BY <1>10
    <3> QED
      BY <1>2, <1>3, <3>1
  <2>2. d.buffer_ \in Bytes
    BY <1>3 DEF CountsOK, CodedInputs
  <2> QED
    BY <2>1, <2>2, NoBytes
<1>11. Held(d, i)
  BY <1>3, <1>5, <1>9 DEF Held
<1> QED
  BY <1>3, <1>4, <1>7, <1>8, <1>10, <1>11

\* Refresh() consumes what is left before the nearest limit, and gets the next
\* block if no limit is near.
LEMMA RefreshOf ==
  ASSUME file \in Bytes, Held(cis, in), NEW r \in Refresh(cis)
  PROVE  /\ r.ok \in BOOLEAN /\ (in.failed_ => r.in.failed_)
         /\ Held(r.c, r.in) /\ SameReader(cis, r.c) /\ SameInput(in, r.in)
         /\ At(r.c, r.in) = At(cis, in) + cis.buffer_size_
         /\ Lag(r.c, r.in) = Lag(cis, in)
         /\ Position(r.c) = Position(cis) + cis.buffer_size_
         /\ r.ok => cis.buffer_size_after_limit_ = 0 /\ ~r.in.failed_
         /\ ~r.ok =>
              /\ r.c.buffer_size_ = 0
              /\ \/ cis.buffer_size_after_limit_ > 0
                 \/ r.in.failed_
                 \/ InByteCount(r.in) >= Len(file)
                 \/ in.limited /\ InByteCount(r.in) >= EndOf(in)
              /\ cis.buffer_size_after_limit_ = 0 => r.c.buffer_ = <<>>
         /\ Dry(in) => /\ Dry(r.in)
                       /\ cis.buffer_ = <<>> => r.c.buffer_ = <<>>
<1>0. CountsOK(cis) /\ cis \in CodedInputs /\ InputOK(in, Len(cis.buffer_))
  BY DEF Held, CountsOK
<1>1. /\ cis.buffer_size_ \in Nat /\ cis.buffer_size_after_limit_ \in Nat
      /\ cis.overflow_bytes_ \in Nat
  BY <1>0, CodedFields
<1>b. cis.buffer_ \in Bytes /\ Len(cis.buffer_) \in Nat
  BY <1>0, CodedFields
<1>2. /\ cis.overflow_bytes_ > 0 => cis.buffer_size_after_limit_ > 0
      /\ Position(cis) + cis.buffer_size_
           = cis.total_bytes_read_ - cis.buffer_size_after_limit_
      /\ cis.buffer_size_after_limit_ = 0 =>
           cis.total_bytes_read_ <= Closest(cis)
  BY <1>0, CountsOf
<1>3. /\ At(cis, in) \in Nat /\ InByteCount(in) \in Nat
      /\ At(cis, in) + Len(cis.buffer_) = InByteCount(in)
  BY HeldOf
<1>4. CASE cis.buffer_size_after_limit_ > 0 \/ cis.overflow_bytes_ > 0
  <2> DEFINE d == Advance(cis, cis.buffer_size_)
  <2>1. r = [ok |-> FALSE, c |-> d, in |-> in]
    BY <1>4, Zenon DEF Refresh
  <2> HIDE DEF d
  <2>2. r.ok = FALSE /\ r.c = d /\ r.in = in
    BY <2>1
  <2>3. cis.buffer_size_ \in 0 .. cis.buffer_size_
    BY <1>1
  <2>4. /\ Held(d, in) /\ SameReader(cis, d)
        /\ At(d, in) = At(cis, in) + cis.buffer_size_ /\ Lag(d, in) = Lag(cis, in)
        /\ Position(d) = Position(cis) + cis.buffer_size_
        /\ d.buffer_size_ = cis.buffer_size_ - cis.buffer_size_
        /\ cis.buffer_ = <<>> => d.buffer_ = <<>>
    BY <2>3, AdvanceHeld DEF d
  <2>5. cis.buffer_size_after_limit_ > 0 /\ ~(cis.buffer_size_after_limit_ = 0)
    BY <1>1, <1>2, <1>4
  <2>6. SameInput(in, in)
    BY DEF SameInput
  <2>7. d.buffer_size_ = 0
    BY <1>1, <2>4
  <2> QED
    BY <2>2, <2>4, <2>5, <2>6, <2>7, Zenon
<1>5. CASE ~(cis.buffer_size_after_limit_ > 0 \/ cis.overflow_bytes_ > 0)
  <2>0. cis.buffer_size_after_limit_ = 0 /\ cis.overflow_bytes_ = 0
    BY <1>1, <1>5
  <2>1. PICK o \in InNext(in) :
          r = [ok |-> o.ok, in |-> o.in,
               c |-> IF o.ok THEN Filled(cis, o.data)
                     ELSE [cis EXCEPT !.buffer_ = <<>>, !.buffer_size_ = 0]]
    BY <1>5, Zenon DEF Refresh
  <2>2. /\ o.ok \in BOOLEAN /\ o.data \in Bytes
        /\ InputOK(o.in, Len(o.data))
        /\ o.in.limited = in.limited
        /\ o.in.seeks = in.seeks /\ o.in.short = in.short
        /\ InByteCount(o.in) = InByteCount(in) + Len(o.data)
        /\ in.limited => EndOf(o.in) = EndOf(in)
        /\ o.ok => /\ ~in.failed_ /\ ~o.in.failed_
                   /\ Len(o.data) > 0 => InByteCount(o.in) <= Len(file)
                   /\ \A j \in 1 .. Len(o.data) :
                        o.data[j] = file[InByteCount(in) + j]
                   /\ Dry(in) => o.data = <<>>
        /\ ~o.ok => /\ o.data = <<>>
                    /\ \/ o.in.failed_
                       \/ InByteCount(in) >= Len(file)
                       \/ in.limited /\ in.limit_ < 0 /\ o.in = in
        /\ in.failed_ => ~o.ok /\ o.in = in
        /\ Dry(in) => Dry(o.in)
    BY <1>0, <1>b, InNextOf
  <2>3. SameInput(in, o.in)
    BY <2>2 DEF SameInput
  <2>n. Len(o.data) \in Nat
    BY <2>2 DEF Bytes
  <2>r. r.ok = o.ok /\ r.in = o.in
    BY <2>1
  <2>l. /\ At(cis, in) + cis.buffer_size_ = InByteCount(in)
        /\ Position(cis) + cis.buffer_size_ = cis.total_bytes_read_
    <3>1. Len(cis.buffer_)
            = cis.buffer_size_ + cis.buffer_size_after_limit_
                + cis.overflow_bytes_
      BY <1>0 DEF CountsOK
    <3>2. Len(cis.buffer_) = cis.buffer_size_
      BY <1>1, <2>0, <3>1
    <3>3. cis.total_bytes_read_ \in Nat
      BY <1>0, CodedFields
    <3> QED
      BY <1>2, <1>3, <2>0, <3>2, <3>3
  <2>4. CASE o.ok
    <3> DEFINE d == Filled(cis, o.data)
    <3>1. r.c = d
      BY <2>1, <2>4
    <3> HIDE DEF d
    <3>2. /\ CountsOK(d) /\ Position(d) = Position(cis) + cis.buffer_size_
          /\ d.open = cis.open /\ d.base = cis.base /\ d.buffer_ = o.data
          /\ d.total_bytes_read_ + d.overflow_bytes_
               = cis.total_bytes_read_ + Len(o.data)
          /\ d.legitimate_message_end_ = cis.legitimate_message_end_
          /\ d.current_limit_ = cis.current_limit_
          /\ d.total_bytes_limit_ = cis.total_bytes_limit_
      BY <1>0, <2>0, <2>2, FilledOf DEF d
    <3>3. SameReader(cis, d)
      BY <3>2 DEF SameReader
    <3>4. Holds(d, o.in)
      <4> SUFFICES ASSUME NEW j \in 1 .. Len(o.data)
                   PROVE  o.data[j] = file[InByteCount(o.in) - Len(o.data) + j]
        BY <3>2 DEF Holds
      <4>1. InByteCount(o.in) - Len(o.data) + j = InByteCount(in) + j
        BY <1>3, <2>2, <2>n
      <4> QED
        BY <2>2, <2>4, <4>1
    <3>5. Held(d, o.in)
      BY <2>2, <3>2, <3>4 DEF Held
    <3>6. At(d, o.in) = InByteCount(in)
      BY <1>3, <2>2, <2>n, <3>2 DEF At
    <3>7. Lag(d, o.in) = Lag(cis, in)
      <4>1. /\ cis.base \in Nat /\ cis.total_bytes_read_ \in Nat
            /\ d.total_bytes_read_ \in Nat /\ d.overflow_bytes_ \in Nat
        <5>1. d \in CodedInputs
          BY <3>2 DEF CountsOK
        <5> QED
          BY <1>0, <5>1, CodedFields
      <4>2. d.base = cis.base
            /\ d.total_bytes_read_ + d.overflow_bytes_
                 = cis.total_bytes_read_ + Len(o.data)
            /\ InByteCount(o.in) = InByteCount(in) + Len(o.data)
        BY <2>2, <3>2
      <4> QED
        <5> DEFINE x == InByteCount(in)
                   y == InByteCount(o.in)
                   base == cis.base
                   before == cis.total_bytes_read_
                   total == d.total_bytes_read_
                   over == d.overflow_bytes_
                   more == Len(o.data)
        <5>1. /\ x \in Nat /\ y = x + more /\ base \in Nat /\ before \in Nat
              /\ total \in Nat /\ over \in Nat /\ more \in Nat
              /\ total + over = before + more
          BY <1>3, <2>n, <4>1, <4>2
        <5>2. /\ Lag(cis, in) = base + before + 0 - x
              /\ Lag(d, o.in) = base + total + over - y
          BY <2>0, <4>2 DEF Lag
        <5> HIDE DEF x, y, base, before, total, over, more
        <5> QED
          BY <5>1, <5>2
    <3>8. Dry(in) => d.buffer_ = <<>>
      BY <2>2, <2>4, <3>2
    <3> QED
      BY <2>0, <2>2, <2>3, <2>4, <2>l, <2>r, <3>1, <3>2, <3>3, <3>5, <3>6,
         <3>7, <3>8
  <2>5. CASE ~o.ok
    <3> DEFINE d == [cis EXCEPT !.buffer_ = <<>>, !.buffer_size_ = 0]
    <3>1. r.c = d
      BY <2>1, <2>5
    <3> HIDE DEF d
    <3>2. d \in CodedInputs
      BY <1>0, EmptyBytes DEF CodedInputs, d
    <3>3. /\ d.open = cis.open /\ d.base = cis.base /\ d.buffer_ = <<>>
          /\ d.buffer_size_ = 0
          /\ d.total_bytes_read_ = cis.total_bytes_read_
          /\ d.overflow_bytes_ = cis.overflow_bytes_
          /\ d.legitimate_message_end_ = cis.legitimate_message_end_
          /\ d.current_limit_ = cis.current_limit_
          /\ d.buffer_size_after_limit_ = cis.buffer_size_after_limit_
          /\ d.total_bytes_limit_ = cis.total_bytes_limit_
      BY <1>0, <3>2 DEF CodedInputs, d
    <3>4. Closest(d) = Closest(cis) /\ SameReader(cis, d)
      BY <3>3 DEF Closest, SameReader
    <3>5. cis.total_bytes_read_ \in Nat /\ Closest(cis) \in Nat
      BY <1>0, CodedFields
    <3>6. Position(d) = cis.total_bytes_read_
      BY <2>0, <3>3, <3>5 DEF Position
    <3>7. CountsOK(d)
      <4>1. Position(d) \in 0 .. Closest(d)
        BY <1>2, <2>0, <3>4, <3>5, <3>6
      <4>2. Len(d.buffer_) = d.buffer_size_ + d.buffer_size_after_limit_
                               + d.overflow_bytes_
        <5>1. Len(d.buffer_) = 0 /\ d.buffer_size_ = 0
          BY <3>3, EmptyBytes
        <5>2. d.buffer_size_after_limit_ = 0 /\ d.overflow_bytes_ = 0
          BY <2>0, <3>3
        <5> QED
          BY <5>1, <5>2
      <4>3. /\ cis.total_bytes_read_ <= IntMax
            /\ cis.current_limit_ <= IntMax /\ cis.total_bytes_limit_ < IntMax
            /\ (cis.overflow_bytes_ > 0 => cis.total_bytes_read_ = IntMax)
            /\ cis.buffer_size_after_limit_
                 = Greatest(0, cis.total_bytes_read_ - Closest(cis))
        BY <1>0 DEF CountsOK
      <4> QED
        BY <3>2, <3>3, <3>4, <4>1, <4>2, <4>3 DEF CountsOK
    <3>8. Len(o.data) = 0 /\ Len(d.buffer_) = 0
      BY <2>2, <2>5, <3>3, EmptyBytes
    <3>9. InByteCount(o.in) = InByteCount(in)
      BY <1>3, <2>2, <3>8
    <3>10. Held(d, o.in)
      <4>1. InputOK(o.in, Len(d.buffer_))
        BY <2>2, <3>8
      <4>2. Holds(d, o.in)
        BY <3>8 DEF Holds
      <4> QED
        BY <3>7, <4>1, <4>2 DEF Held
    <3>11. At(d, o.in) = InByteCount(in)
      BY <1>3, <3>8, <3>9 DEF At
    <3>12. Lag(d, o.in) = Lag(cis, in)
      BY <3>3, <3>9 DEF Lag
    <3>13. /\ ~(cis.buffer_size_after_limit_ > 0)
           /\ \/ o.in.failed_
              \/ InByteCount(o.in) >= Len(file)
              \/ in.limited /\ InByteCount(o.in) >= EndOf(in)
      <4>1. ASSUME in.limit_ < 0 PROVE InByteCount(in) >= EndOf(in)
        <5>1. EndOf(in) = InByteCount(in)
                            + (IF in.limit_ < 0 THEN 0 ELSE in.limit_)
          BY <1>0, <1>b, ByteCountOf
        <5> QED
          BY <1>3, <4>1, <5>1
      <4> QED
        BY <1>5, <2>2, <2>5, <3>9, <4>1
    <3> QED
      BY <2>2, <2>3, <2>5, <2>l, <2>r, <3>1, <3>3, <3>4, <3>6, <3>10, <3>11,
         <3>12, <3>13
  <2> QED
    BY <2>2, <2>4, <2>5
<1> QED
  BY <1>4, <1>5
-----------------------------------------------------------------------------
(* The first reader, and every new one *)

LEMMA FreshInput ==
  ASSUME NEW i \in {FileInputStream(d[1], d[2]) : d \in Descriptors}
  PROVE  /\ i \in InStreams /\ i.sound /\ i.position_ = i.offset
         /\ ~i.previous_seek_failed_ /\ ~i.limited /\ i.limit_ = 0
         /\ i.backup_bytes_ = 0 /\ Hidden(i) = 0 /\ ~i.failed_
         /\ InByteCount(i) = 0 /\ <<i.seeks, i.short>> \in Descriptors
<1>1. PICK d \in Descriptors : i = FileInputStream(d[1], d[2])
  OBVIOUS
<1>2. d[1] \in BOOLEAN /\ d[2] \in BOOLEAN /\ d = <<d[1], d[2]>>
  BY InputsAssumption
<1>3. i = [seeks |-> d[1], short |-> d[2], offset |-> 0, broken |-> FALSE,
           previous_seek_failed_ |-> FALSE, failed_ |-> FALSE,
           position_ |-> 0, buffer_ |-> <<>>, backup_bytes_ |-> 0,
           limited |-> FALSE, limit_ |-> 0, sound |-> TRUE]
  BY <1>1, Zenon DEF FileInputStream
<1>4. i \in InStreams
  BY <1>2, <1>3, EmptyBytes, 0 \in Nat, 0 \in Int DEF InStreams
<1>5. /\ i.seeks = d[1] /\ i.short = d[2] /\ i.offset = 0
      /\ i.previous_seek_failed_ = FALSE /\ i.failed_ = FALSE
      /\ i.position_ = 0 /\ i.backup_bytes_ = 0
      /\ i.limited = FALSE /\ i.limit_ = 0 /\ i.sound = TRUE
  BY <1>3
<1>6. Hidden(i) = 0 /\ InByteCount(i) = 0
  BY <1>5 DEF Hidden, InByteCount
<1> QED
  BY <1>2, <1>4, <1>5, <1>6

LEMMA FreshStream ==
  ASSUME NEW c, NEW base \in Nat,
         c = [open |-> TRUE, base |-> base, buffer_ |-> <<>>,
              buffer_size_ |-> 0, total_bytes_read_ |-> 0, overflow_bytes_ |-> 0,
              legitimate_message_end_ |-> FALSE, current_limit_ |-> IntMax,
              buffer_size_after_limit_ |-> 0, total_bytes_limit_ |-> DefaultTotal]
  PROVE  /\ CountsOK(c) /\ c.open = TRUE /\ c.base = base
         /\ c.buffer_ = <<>> /\ c.buffer_size_ = 0 /\ c.total_bytes_read_ = 0
         /\ c.overflow_bytes_ = 0 /\ c.legitimate_message_end_ = FALSE
         /\ c.current_limit_ = IntMax /\ c.buffer_size_after_limit_ = 0
         /\ c.total_bytes_limit_ = DefaultTotal
<1>2. IntMax \in Nat /\ DefaultTotal \in Nat /\ DefaultTotal < IntMax
  BY IntMaxAssumption, DefaultTotalAssumption
<1>3. /\ c.open = TRUE /\ c.base = base
      /\ c.buffer_ = <<>> /\ c.buffer_size_ = 0 /\ c.total_bytes_read_ = 0
      /\ c.overflow_bytes_ = 0 /\ c.legitimate_message_end_ = FALSE
      /\ c.current_limit_ = IntMax /\ c.buffer_size_after_limit_ = 0
      /\ c.total_bytes_limit_ = DefaultTotal
  OBVIOUS
<1>4. c \in CodedInputs
  <2>1. /\ TRUE \in BOOLEAN /\ FALSE \in BOOLEAN /\ base \in Nat
        /\ 0 \in Nat /\ <<>> \in Bytes /\ IntMax \in Nat
        /\ DefaultTotal \in Nat
    BY <1>2, EmptyBytes
  <2> QED
    BY <2>1 DEF CodedInputs
<1>5. Closest(c) = DefaultTotal /\ Position(c) = 0
  BY <1>2, <1>3 DEF Closest, Least, Position
<1>6. CountsOK(c)
  <2>1. Len(c.buffer_)
          = c.buffer_size_ + c.buffer_size_after_limit_ + c.overflow_bytes_
    BY <1>3, EmptyBytes
  <2>2. c.buffer_size_after_limit_
          = Greatest(0, c.total_bytes_read_ - Closest(c))
    BY <1>2, <1>3, <1>5 DEF Greatest
  <2>3. /\ c.total_bytes_read_ <= IntMax
        /\ c.current_limit_ <= IntMax /\ c.total_bytes_limit_ < IntMax
        /\ (c.overflow_bytes_ > 0 => c.total_bytes_read_ = IntMax)
    BY <1>2, <1>3
  <2>4. Position(c) \in 0 .. Closest(c)
    BY <1>2, <1>5
  <2> QED
    BY <1>4, <2>1, <2>2, <2>3, <2>4 DEF CountsOK
<1> QED
  BY <1>3, <1>6

LEMMA NoStreamOf ==
  /\ CountsOK(NoStream) /\ NoStream.open = FALSE /\ NoStream.base = 0
  /\ NoStream.buffer_ = <<>> /\ NoStream.total_bytes_read_ = 0
  /\ NoStream.overflow_bytes_ = 0
<1> DEFINE n == NewStream(0)
<1>1. /\ CountsOK(n) /\ n.open = TRUE /\ n.base = 0
      /\ n.buffer_ = <<>> /\ n.buffer_size_ = 0 /\ n.total_bytes_read_ = 0
      /\ n.overflow_bytes_ = 0 /\ n.legitimate_message_end_ = FALSE
      /\ n.current_limit_ = IntMax /\ n.buffer_size_after_limit_ = 0
      /\ n.total_bytes_limit_ = DefaultTotal
  BY FreshStream, 0 \in Nat DEF NewStream
<1>2. NoStream = [n EXCEPT !.open = FALSE]
  BY DEF NoStream
<1> HIDE DEF n
<1>3. n \in CodedInputs
  BY <1>1 DEF CountsOK
<1>4. NoStream \in CodedInputs
  BY <1>2, <1>3 DEF CodedInputs
<1>5. /\ NoStream.open = FALSE /\ NoStream.base = n.base
      /\ NoStream.buffer_ = n.buffer_
      /\ NoStream.buffer_size_ = n.buffer_size_
      /\ NoStream.total_bytes_read_ = n.total_bytes_read_
      /\ NoStream.overflow_bytes_ = n.overflow_bytes_
      /\ NoStream.current_limit_ = n.current_limit_
      /\ NoStream.buffer_size_after_limit_ = n.buffer_size_after_limit_
      /\ NoStream.total_bytes_limit_ = n.total_bytes_limit_
  BY <1>2, <1>3 DEF CodedInputs
<1>6. Closest(NoStream) = Closest(n) /\ Position(NoStream) = Position(n)
  BY <1>5 DEF Closest, Position
<1>7. CountsOK(NoStream)
  BY <1>1, <1>4, <1>5, <1>6 DEF CountsOK
<1> QED
  BY <1>1, <1>5, <1>7

\* A stream that holds nothing asks nothing of the file.
LEMMA HoldsNothing ==
  ASSUME NEW c, CountsOK(c), c.buffer_ = <<>>, NEW i, InputOK(i, 0)
  PROVE  /\ Held(c, i) /\ At(c, i) = InByteCount(i)
         /\ Lag(c, i) = c.base + c.total_bytes_read_ + c.overflow_bytes_
                          - InByteCount(i)
<1>1. Len(c.buffer_) = 0
  BY EmptyBytes
<1>2. Holds(c, i)
  BY <1>1 DEF Holds
<1>3. InputOK(i, Len(c.buffer_))
  BY <1>1
<1>4. InByteCount(i) \in Int
  BY ByteCountOf, 0 \in Nat
<1>5. At(c, i) = InByteCount(i)
  BY <1>1, <1>4 DEF At
<1> QED
  BY <1>2, <1>3, <1>5 DEF Held, Lag

\* As long as there is nothing to read, the readers have not begun.
LEMMA UntouchedOK == ASSUME Untouched PROVE CursorInv
<1>1. /\ in \in {FileInputStream(d[1], d[2]) : d \in Descriptors}
      /\ cis = NoStream /\ limits = <<>> /\ call = NoCall
  BY DEF Untouched
<1>2. /\ in \in InStreams /\ in.sound /\ in.position_ = in.offset
      /\ ~in.previous_seek_failed_ /\ ~in.limited /\ in.limit_ = 0
      /\ in.backup_bytes_ = 0 /\ Hidden(in) = 0 /\ ~in.failed_
      /\ InByteCount(in) = 0 /\ <<in.seeks, in.short>> \in Descriptors
  BY <1>1, FreshInput
<1>3. InputOK(in, 0)
  <2>1. Len(in.buffer_) \in Nat
    BY <1>2, InFields
  <2> QED
    BY <1>2, <2>1 DEF InputOK
<1>4. Held(cis, in)
  BY <1>1, <1>3, NoStreamOf, HoldsNothing
<1>5. LimitsOK
  <2>1. <<>> \in Seq(0 .. IntMax) /\ Len(<<>>) = 0
    OBVIOUS
  <2> QED
    BY <1>1, <2>1 DEF LimitsOK
<1>6. CallOK
  BY <1>1 DEF CallOK
<1>7. ~cis.open
  BY <1>1, NoStreamOf
<1>8. CountOK(cis, in)
  BY <1>7 DEF CountOK
<1> QED
  BY <1>1, <1>2, <1>4, <1>5, <1>6, <1>8 DEF CursorInv, ReaderInv, Untouched

LEMMA ReaderInit == Init => CursorInv
<1> SUFFICES ASSUME Init PROVE CursorInv
  OBVIOUS
<1>1. Untouched
  BY Zenon DEF Init, InInit, Untouched
<1> QED
  BY <1>1, UntouchedOK

\* While the file is written, nobody reads.
LEMMA WritingKeeps ==
  ASSUME WriterInv, CursorInv, WriterNext, UNCHANGED inVars
  PROVE  closed # "gone" /\ Untouched /\ Untouched'
<1>1. closed # "gone"
  <2>1. (cos.open => closed = "open") /\ (~cos.open => ~cos.writing)
    BY DEF WriterInv, WriterStage
  <2>2. cos.open \/ cos.writing \/ closed = "open" \/ closed \in {"ok", "failed"}
    <3>1. Write => cos.open
      BY DEF Write
    <3>2. WriteRaw => cos.writing
      BY Zenon DEF WriteRaw
    <3>3. DestroyCoded => cos.open
      BY DEF DestroyCoded
    <3>4. Close => closed = "open"
      BY DEF Close
    <3>5. Delete => closed \in {"ok", "failed"}
      BY Zenon DEF Delete
    <3> QED
      BY <3>1, <3>2, <3>3, <3>4, <3>5 DEF WriterNext
  <2> QED
    BY <2>1, <2>2
<1>2. Untouched
  BY <1>1 DEF CursorInv, ReaderInv
<1>3. in' = in /\ cis' = cis /\ limits' = limits /\ call' = call
  BY DEF inVars
<1> QED
  BY <1>1, <1>2, <1>3 DEF Untouched
-----------------------------------------------------------------------------
(* Steps of the reader *)

LEMMA ReaderMoves ==
  ASSUME CursorInv, closed = "gone", UNCHANGED outVars,
         Held(cis', in'), cis'.open, in'.seeks = in.seeks,
         in'.short = in.short, LimitsOK', CallOK',
         Exact(in) => CountOK(cis', in')
  PROVE  CursorInv'
<1>1. file' = file /\ closed' = closed
  BY DEF outVars
<1>2. Held(cis, in)'
  BY <1>1 DEF Held, InputOK, Loaded, Holds
<1>3. Exact(in)' => CountOK(cis, in)'
  BY <1>1 DEF Exact, CountOK, Dry
<1>4. <<in.seeks, in.short>>' \in Descriptors
  BY DEF CursorInv, ReaderInv
<1> QED
  BY <1>1, <1>2, <1>3, <1>4 DEF CursorInv, ReaderInv

\* The bounds and the bytes of the reader, for every step.
LEMMA ReaderState ==
  ASSUME WriterInv, CursorInv
  PROVE  /\ file \in Bytes /\ Held(cis, in) /\ LimitsOK /\ CallOK
         /\ CountsOK(cis) /\ cis \in CodedInputs
         /\ InputOK(in, Len(cis.buffer_)) /\ in \in InStreams
         /\ <<in.seeks, in.short>> \in Descriptors
         /\ Exact(in) => CountOK(cis, in)
BY DEF WriterInv, WriterTypes, CursorInv, ReaderInv, Held, CountsOK, InputOK

\* Only the limits of the reader that a step leaves alone matter to the others.
LEMMA LimitsKept ==
  ASSUME LimitsOK, limits' = limits, cis'.current_limit_ = cis.current_limit_
  PROVE  LimitsOK'
BY DEF LimitsOK

LEMMA NoCallOK == ASSUME call' = NoCall PROVE CallOK'
BY DEF CallOK

\* A stream that lost count before a step that keeps the lag is still lost.
LEMMA LagKept ==
  ASSUME NEW c, NEW i, NEW d, NEW k, CountOK(c, i), c.open, 
         Lag(d, k) = Lag(c, i), 
         Dry(i) => Dry(k) /\ (c.buffer_ = <<>> => d.buffer_ = <<>>)
  PROVE  CountOK(d, k)
BY DEF CountOK

\* A step that consumes bytes of the buffer, or none, and ends the call.
LEMMA AdvanceReturns ==
  ASSUME WriterInv, CursorInv, closed = "gone", UNCHANGED outVars, cis.open,
         NEW n \in 0 .. cis.buffer_size_, cis' = Advance(cis, n),
         UNCHANGED <<in, limits>>, call' = NoCall
  PROVE  CursorInv'
<1>1. /\ file \in Bytes /\ Held(cis, in) /\ LimitsOK
      /\ Exact(in) => CountOK(cis, in)
  BY ReaderState
<1>2. /\ Held(cis', in) /\ SameReader(cis, cis')
      /\ Lag(cis', in) = Lag(cis, in)
      /\ cis.buffer_ = <<>> => cis'.buffer_ = <<>>
  BY <1>1, AdvanceHeld
<1>3. cis'.open /\ cis'.current_limit_ = cis.current_limit_
  BY <1>2 DEF SameReader
<1>4. in' = in /\ limits' = limits
  OBVIOUS
<1>5. Held(cis', in')
  BY <1>2, <1>4
<1>6. Exact(in) => CountOK(cis', in')
  <2>1. Exact(in) => CountOK(cis', in)
    BY <1>1, <1>2, LagKept
  <2> QED
    BY <1>4, <2>1
<1>7. LimitsOK' /\ CallOK'
  BY <1>1, <1>3, <1>4, LimitsKept, NoCallOK
<1> QED
  BY <1>3, <1>4, <1>5, <1>6, <1>7, ReaderMoves

\* EndNoted that a message may end here changes nothing else.
LEMMA EndNoted ==
  ASSUME NEW c, NEW i, Held(c, i), NEW b \in BOOLEAN,
         NEW d, d = [c EXCEPT !.legitimate_message_end_ = b]
  PROVE  /\ Held(d, i) /\ At(d, i) = At(c, i) /\ Lag(d, i) = Lag(c, i)
         /\ Position(d) = Position(c) /\ Closest(d) = Closest(c)
         /\ d.open = c.open /\ d.base = c.base /\ d.buffer_ = c.buffer_
         /\ d.buffer_size_ = c.buffer_size_
         /\ d.buffer_size_after_limit_ = c.buffer_size_after_limit_
         /\ d.total_bytes_read_ = c.total_bytes_read_
         /\ d.overflow_bytes_ = c.overflow_bytes_
         /\ d.current_limit_ = c.current_limit_
         /\ d.total_bytes_limit_ = c.total_bytes_limit_
         /\ d.legitimate_message_end_ = b
<1>1. CountsOK(c) /\ c \in CodedInputs /\ InputOK(i, Len(c.buffer_))
      /\ Holds(c, i)
  BY DEF Held, CountsOK
<1>2. d \in CodedInputs
  BY <1>1 DEF CodedInputs
<1>3. /\ d.open = c.open /\ d.base = c.base /\ d.buffer_ = c.buffer_
      /\ d.buffer_size_ = c.buffer_size_
      /\ d.buffer_size_after_limit_ = c.buffer_size_after_limit_
      /\ d.total_bytes_read_ = c.total_bytes_read_
      /\ d.overflow_bytes_ = c.overflow_bytes_
      /\ d.current_limit_ = c.current_limit_
      /\ d.total_bytes_limit_ = c.total_bytes_limit_
      /\ d.legitimate_message_end_ = b
  BY <1>1 DEF CodedInputs
<1>4. Position(d) = Position(c) /\ Closest(d) = Closest(c)
  BY <1>3 DEF Position, Closest
<1>5. CountsOK(d)
  BY <1>1, <1>2, <1>3, <1>4 DEF CountsOK
<1>6. Holds(d, i) /\ At(d, i) = At(c, i) /\ Lag(d, i) = Lag(c, i)
  BY <1>1, <1>3 DEF Holds, At, Lag
<1> QED
  BY <1>1, <1>3, <1>4, <1>5, <1>6 DEF Held

\* A step that takes bytes of the input or of the buffer and counts them all.
LEMMA TakingKeeps ==
  ASSUME WriterInv, CursorInv, closed = "gone", UNCHANGED outVars, cis.open,
         NEW d, Held(d, in'), SameReader(cis, d), SameInput(in, in'),
         Lag(d, in') = Lag(cis, in),
         Dry(in) => Dry(in') /\ (cis.buffer_ = <<>> => d.buffer_ = <<>>),
         NEW b \in BOOLEAN,
         cis' = d \/ cis' = [d EXCEPT !.legitimate_message_end_ = b],
         limits' = limits, CallOK'
  PROVE  CursorInv'
<1>1. /\ LimitsOK /\ (Exact(in) => CountOK(cis, in))
  BY ReaderState
<1>2. /\ d.open /\ d.current_limit_ = cis.current_limit_
  BY DEF SameReader
<1>3. /\ Held(cis', in') /\ Lag(cis', in') = Lag(cis, in)
      /\ cis'.open /\ cis'.current_limit_ = cis.current_limit_
      /\ cis'.buffer_ = d.buffer_
  <2>1. CASE cis' = d
    BY <1>2, <2>1
  <2>2. CASE cis' = [d EXCEPT !.legitimate_message_end_ = b]
    BY <1>2, <2>2, EndNoted
  <2> QED
    BY <2>1, <2>2
<1>4. Exact(in) => CountOK(cis', in')
  <2>1. Dry(in) => Dry(in') /\ (cis.buffer_ = <<>> => cis'.buffer_ = <<>>)
    BY <1>3
  <2> QED
    BY <1>1, <1>3, <2>1, LagKept
<1>5. LimitsOK'
  BY <1>1, <1>3, LimitsKept
<1>6. in'.seeks = in.seeks /\ in'.short = in.short
  BY DEF SameInput
<1> QED
  BY <1>3, <1>4, <1>5, <1>6, ReaderMoves

\* A step that asks for the next block.
LEMMA RefreshKeeps ==
  ASSUME WriterInv, CursorInv, closed = "gone", UNCHANGED outVars, cis.open,
         NEW o \in Refresh(cis), in' = o.in, NEW b \in BOOLEAN,
         cis' = o.c \/ cis' = [o.c EXCEPT !.legitimate_message_end_ = b],
         limits' = limits, CallOK'
  PROVE  CursorInv'
<1>1. file \in Bytes /\ Held(cis, in)
  BY ReaderState
<1>2. /\ Held(o.c, o.in) /\ SameReader(cis, o.c) /\ SameInput(in, o.in)
      /\ Lag(o.c, o.in) = Lag(cis, in)
      /\ Dry(in) => /\ Dry(o.in)
                    /\ cis.buffer_ = <<>> => o.c.buffer_ = <<>>
  BY <1>1, RefreshOf
<1>3. /\ Held(o.c, in') /\ SameInput(in, in') /\ Lag(o.c, in') = Lag(cis, in)
      /\ Dry(in) => Dry(in') /\ (cis.buffer_ = <<>> => o.c.buffer_ = <<>>)
  BY <1>2
<1> QED
  BY <1>2, <1>3, TakingKeeps

\* The bytes that may be read are those of the file at the cursor.
LEMMA ReadableOf ==
  ASSUME file \in Bytes, NEW c, NEW i, Held(c, i)
  PROVE  /\ Readable(c) \in Bytes /\ Len(Readable(c)) = c.buffer_size_
         /\ c.buffer_size_ \in Nat /\ c.buffer_ \in Bytes
         /\ c.buffer_size_ <= Len(c.buffer_)
         /\ \A j \in 1 .. c.buffer_size_ :
              /\ Readable(c)[j] = file[At(c, i) + j]
              /\ Readable(c)[j] = c.buffer_[j]
         /\ c.buffer_size_ > 0 =>
              /\ At(c, i) + c.buffer_size_ <= Len(file)
              /\ At(c, i) + c.buffer_size_ <= InByteCount(i)
<1>1. CountsOK(c) /\ c \in CodedInputs
  BY DEF Held, CountsOK
<1>2. /\ c.buffer_size_ \in Nat /\ c.buffer_ \in Seq(Nat)
      /\ Len(c.buffer_) \in Nat /\ c.buffer_size_ <= Len(c.buffer_)
      /\ c.buffer_ \in Bytes
  BY <1>1, CodedFields, CountsOf DEF Bytes
<1>3. c.buffer_size_ \in 0 .. Len(c.buffer_)
  BY <1>2
<1>4. /\ Readable(c) \in Seq(Nat) /\ Len(Readable(c)) = c.buffer_size_
      /\ \A j \in 1 .. c.buffer_size_ : Readable(c)[j] = c.buffer_[j]
  BY <1>2, <1>3, FrontOf DEF Readable
<1>5. /\ At(c, i) \in Nat /\ InByteCount(i) \in Nat
      /\ Len(c.buffer_) > 0 => InByteCount(i) <= Len(file)
      /\ \A j \in 1 .. Len(c.buffer_) : c.buffer_[j] = file[At(c, i) + j]
      /\ At(c, i) + Len(c.buffer_) = InByteCount(i)
  BY HeldOf
<1>6. \A j \in 1 .. c.buffer_size_ : Readable(c)[j] = file[At(c, i) + j]
  <2> TAKE j \in 1 .. c.buffer_size_
  <2>1. j \in 1 .. Len(c.buffer_)
    BY <1>2
  <2> QED
    BY <1>4, <1>5, <2>1
<1>7. ASSUME c.buffer_size_ > 0
      PROVE  /\ At(c, i) + c.buffer_size_ <= Len(file)
             /\ At(c, i) + c.buffer_size_ <= InByteCount(i)
  <2>1. Len(file) \in Nat
    BY DEF Bytes
  <2>2. Len(c.buffer_) > 0
    BY <1>2, <1>7
  <2>3. At(c, i) + c.buffer_size_ <= InByteCount(i)
    BY <1>2, <1>5
  <2> QED
    BY <1>2, <1>5, <2>1, <2>2, <2>3
<1> QED
  BY <1>2, <1>4, <1>6, <1>7 DEF Bytes
-----------------------------------------------------------------------------
(* Varints *)

LEMMA LeastOf ==
  ASSUME NEW S \in SUBSET Nat, S # {}
  PROVE  \E k \in S : \A j \in S : k <= j
<1> DEFINE R == {p \in Nat \X Nat : p[1] < p[2]}
<1>1. IsWellFoundedOn(R, Nat)
  BY NatLessThanWellFounded, Zenon DEF OpToRel
<1> HIDE DEF R
<1>2. PICK k \in S : \A j \in S : ~(<<j, k>> \in R)
  BY <1>1, WFMin
<1>3. \A j \in S : ~(j < k)
  <2> TAKE j \in S
  <2>1. j \in Nat /\ k \in Nat
    OBVIOUS
  <2>2. j < k => <<j, k>> \in R
    BY <2>1 DEF R
  <2> QED
    BY <1>2, <2>2
<1>4. \A j \in S : k <= j
  <2> TAKE j \in S
  <2>1. j \in Nat /\ k \in Nat
    OBVIOUS
  <2> QED
    BY <1>3, <2>1
<1> QED
  BY <1>4

\* The varint at the front of some bytes ends with the first byte that has no
\* continuation bit, if that comes early enough.
LEMMA VarintLenOf ==
  ASSUME NEW b \in Bytes, NEW k, k = VarintLen(b)
  PROVE  /\ k \in 0 .. Len(b) /\ k <= MaxVarint
         /\ k > 0 => b[k] \notin High /\ \A j \in 1 .. k - 1 : b[j] \in High
         /\ k = 0 => \A j \in 1 .. Len(b) : j <= MaxVarint => b[j] \in High
<1> DEFINE most == Least(Len(b), MaxVarint)
           ends == {e \in 1 .. most : b[e] \notin High}
<1>1. Len(b) \in Nat /\ MaxVarint \in Nat \ {0}
  BY MaxVarintAssumption DEF Bytes
<1>2. most \in Nat /\ most <= Len(b) /\ most <= MaxVarint
      /\ \A j \in Nat : j <= Len(b) /\ j <= MaxVarint => j <= most
  BY <1>1 DEF Least
<1>3. k = IF ends = {} THEN 0 ELSE CHOOSE e \in ends : \A j \in ends : e <= j
  BY Zenon DEF VarintLen
<1>4. \A e : e \in ends <=> e \in 1 .. most /\ b[e] \notin High
  OBVIOUS
<1> HIDE DEF most, ends
<1>5. CASE ends = {}
  <2>1. k = 0
    BY <1>3, <1>5
  <2>2. ASSUME NEW j \in 1 .. Len(b), j <= MaxVarint PROVE b[j] \in High
    <3>1. j \in 1 .. most
      BY <1>1, <1>2, <2>2
    <3> QED
      BY <1>4, <1>5, <3>1
  <2> QED
    BY <1>1, <2>1, <2>2
<1>6. CASE ends # {}
  <2>1. ends \in SUBSET Nat
    BY <1>4, <1>2
  <2>2. \E e \in ends : \A j \in ends : e <= j
    BY <1>6, <2>1, LeastOf
  <2>3. k \in ends /\ \A j \in ends : k <= j
    BY <1>3, <1>6, <2>2, Zenon
  <2>4. k \in Nat /\ k >= 1 /\ k <= most /\ b[k] \notin High
    BY <1>2, <1>4, <2>3
  <2>5. ASSUME NEW j \in 1 .. k - 1 PROVE b[j] \in High
    <3>1. j \in 1 .. most /\ ~(k <= j)
      BY <1>2, <2>4
    <3> QED
      BY <1>4, <2>3, <3>1
  <2> QED
    BY <1>1, <1>2, <2>4, <2>5
<1> QED
  BY <1>5, <1>6
-----------------------------------------------------------------------------
(* The call under way *)

LEMMA CallOf ==
  ASSUME WriterInv, CursorInv, call.stage # "none"
  PROVE  /\ cis.open /\ call # NoCall /\ call.op \in {"Read", "ReadVarint"}
         /\ call.stage \in {"copy", "fallback", "varint", "bytes"}
         /\ call.n \in Int /\ call.got \in Bytes /\ call.from \in Nat
         /\ Len(call.got) \in Nat
         /\ call \in [op : {"Read", "ReadVarint"},
                      stage : {"copy", "fallback", "varint", "bytes"},
                      n : Int, got : Bytes, from : Nat]
         /\ call.op = "Read" <=> call.stage = "copy"
         /\ call.stage = "copy" =>
              Len(call.got) <= call.n /\ (call.n > 0 => Len(call.got) < call.n)
         /\ call.stage \in {"fallback", "varint"} => call.got = <<>>
         /\ call.stage = "bytes" =>
              /\ Len(call.got) <= MaxVarint
              /\ \A j \in 1 .. Len(call.got) : call.got[j] \in High
         /\ At(cis, in) = call.from + Len(call.got)
         /\ Len(call.got) > 0 => At(cis, in) <= Len(file)
         /\ \A j \in 1 .. Len(call.got) : call.got[j] = file[call.from + j]
<1>1. call # NoCall
  BY DEF NoCall
<1>2. CallOK
  BY ReaderState
<1>3. call \in [op : {"Read", "ReadVarint"},
                stage : {"copy", "fallback", "varint", "bytes"},
                n : Int, got : Bytes, from : Nat]
  BY <1>1, <1>2 DEF CallOK
<1>4. /\ call.op \in {"Read", "ReadVarint"}
      /\ call.stage \in {"copy", "fallback", "varint", "bytes"}
      /\ call.n \in Int /\ call.got \in Bytes /\ call.from \in Nat
  BY <1>3
<1>5. Len(call.got) \in Nat
  BY <1>4 DEF Bytes
<1> QED
  BY <1>1, <1>2, <1>3, <1>4, <1>5 DEF CallOK

\* g is what the call has got so far and the next m bytes of the buffer.
GotBy(g, m) ==
  /\ Len(g) = Len(call.got) + m
  /\ \A j \in 1 .. Len(call.got) : g[j] = call.got[j]
  /\ \A j \in 1 .. m : g[Len(call.got) + j] = cis.buffer_[j]

\* The beginning of a varint.
Unended(g) == Len(g) <= MaxVarint /\ \A j \in 1 .. Len(g) : g[j] \in High

Joined(g, a, b) ==
  /\ Len(g) = Len(a) + Len(b)
  /\ \A j \in 1 .. Len(a) : g[j] = a[j]
  /\ \A j \in 1 .. Len(b) : g[Len(a) + j] = b[j]

\* What the call has got so far and the next m bytes of the buffer are the
\* bytes of the file from where the call began.
LEMMA GotMore ==
  ASSUME WriterInv, CursorInv, call.stage # "none",
         NEW m \in 0 .. cis.buffer_size_, NEW g \in Bytes,
         GotBy(g, m)
  PROVE  /\ \A j \in 1 .. Len(g) : g[j] = file[call.from + j]
         /\ Len(g) > 0 => call.from + Len(g) <= Len(file)
         /\ At(cis, in) + m = call.from + Len(g)
<1> DEFINE len == Len(call.got)
           at == At(cis, in)
           from == call.from
<1>1. /\ len \in Nat /\ from \in Nat /\ at = from + len
      /\ len > 0 => at <= Len(file)
      /\ \A j \in 1 .. len : call.got[j] = file[from + j]
  BY CallOf
<1>2. /\ file \in Bytes /\ Held(cis, in)
  BY ReaderState
<1>3. /\ cis.buffer_size_ \in Nat
      /\ \A j \in 1 .. cis.buffer_size_ : cis.buffer_[j] = file[at + j]
      /\ cis.buffer_size_ > 0 => at + cis.buffer_size_ <= Len(file)
  <2> HIDE DEF at
  <2>1. /\ cis.buffer_size_ \in Nat
        /\ \A j \in 1 .. cis.buffer_size_ :
             /\ Readable(cis)[j] = file[At(cis, in) + j]
             /\ Readable(cis)[j] = cis.buffer_[j]
        /\ cis.buffer_size_ > 0 => at + cis.buffer_size_ <= Len(file)
    BY <1>2, ReadableOf DEF at
  <2> QED
    BY <2>1, Zenon DEF at
<1>4. m \in Nat /\ m <= cis.buffer_size_ /\ Len(file) \in Nat
  BY <1>2, <1>3 DEF Bytes
<1>5. Len(g) = len + m
  BY DEF GotBy
<1>6. \A j \in 1 .. len : g[j] = call.got[j]
  BY DEF GotBy
<1>7. \A j \in 1 .. m : g[len + j] = cis.buffer_[j]
  BY DEF GotBy
<1> HIDE DEF len, at, from
<1>8. at + m = from + Len(g)
  <2>1. at = from + len /\ len \in Nat /\ from \in Nat
    BY <1>1
  <2>2. m \in Nat
    BY <1>4
  <2> QED
    BY <1>5, <2>1, <2>2
<1>9. ASSUME Len(g) > 0 PROVE from + Len(g) <= Len(file)
  <2>1. CASE m = 0
    <3>1. len > 0 /\ at = from + Len(g)
      BY <1>1, <1>5, <1>9, <2>1
    <3> QED
      BY <1>1, <3>1
  <2>2. CASE m > 0
    <3>1. at + cis.buffer_size_ <= Len(file)
      BY <1>3, <1>4, <2>2
    <3>2. at \in Nat
      BY <1>1
    <3>3. at + m <= Len(file)
      BY <1>3, <1>4, <3>1, <3>2
    <3> QED
      BY <1>8, <3>3
  <2> QED
    BY <1>4, <2>1, <2>2
<1>10. ASSUME NEW j \in 1 .. Len(g) PROVE g[j] = file[from + j]
  <2>1. CASE j <= len
    <3>1. j \in 1 .. len
      BY <1>1, <1>4, <1>5, <2>1
    <3> QED
      BY <1>1, <1>6, <3>1
  <2>2. CASE j > len
    <3>1. j - len \in 1 .. m /\ len + (j - len) = j
          /\ at + (j - len) = from + j
      BY <1>1, <1>4, <1>5, <2>2
    <3>2. j - len \in 1 .. cis.buffer_size_
      BY <1>3, <1>4, <3>1
    <3>3. g[len + (j - len)] = cis.buffer_[j - len]
      BY <1>7, <3>1
    <3>4. cis.buffer_[j - len] = file[at + (j - len)]
      BY <1>3, <3>2
    <3> QED
      BY <3>1, <3>3, <3>4
  <2> QED
    BY <1>1, <2>1, <2>2
<1> QED
  BY <1>8, <1>9, <1>10 DEF at, from

\* A step that adds bytes of the buffer to what the call has got.
LEMMA MoreKeepsCall ==
  ASSUME WriterInv, CursorInv, call.stage # "none", UNCHANGED outVars,
         NEW m \in 0 .. cis.buffer_size_, NEW g \in Bytes,
         GotBy(g, m),
         call' = [call EXCEPT !.got = g], cis'.open,
         call.stage = "copy" => Len(g) < call.n,
         call.stage \in {"fallback", "varint"} => m = 0,
         call.stage = "bytes" => Unended(g),
         At(cis', in') = At(cis, in) + m
  PROVE  CallOK'
<1>1. /\ \A j \in 1 .. Len(g) : g[j] = file[call.from + j]
      /\ Len(g) > 0 => call.from + Len(g) <= Len(file)
      /\ At(cis, in) + m = call.from + Len(g)
  BY GotMore
<1>2. file' = file
  BY DEF outVars
<1>3. /\ call \in [op : {"Read", "ReadVarint"},
                   stage : {"copy", "fallback", "varint", "bytes"},
                   n : Int, got : Bytes, from : Nat]
      /\ (call.op = "Read" <=> call.stage = "copy")
      /\ call.n \in Int /\ Len(call.got) \in Nat /\ call.got \in Bytes
      /\ call.stage \in {"fallback", "varint"} => call.got = <<>>
  BY CallOf
<1>4. call' \in [op : {"Read", "ReadVarint"},
                 stage : {"copy", "fallback", "varint", "bytes"},
                 n : Int, got : Bytes, from : Nat]
  BY <1>3
<1>5. /\ call'.op = call.op /\ call'.stage = call.stage /\ call'.n = call.n
      /\ call'.got = g /\ call'.from = call.from
  BY <1>3
<1>6. Len(g) \in Nat
  BY DEF Bytes
<1>7. call'.stage = "copy" =>
        Len(call'.got) <= call'.n /\ (call'.n > 0 => Len(call'.got) < call'.n)
  BY <1>3, <1>5, <1>6
<1>8. call'.stage \in {"fallback", "varint"} => call'.got = <<>>
  <2> SUFFICES ASSUME call.stage \in {"fallback", "varint"} PROVE g = <<>>
    BY <1>5
  <2>1. Len(call.got) = 0 /\ m = 0
    BY <1>3, EmptyBytes
  <2>2. Len(g) = 0
    BY <2>1 DEF GotBy
  <2> QED
    BY <2>2, NoBytes
<1>9. call'.stage = "bytes" =>
        /\ Len(call'.got) <= MaxVarint
        /\ \A j \in 1 .. Len(call'.got) : call'.got[j] \in High
  BY <1>5 DEF Unended
<1>10. (call.op = "Read" <=> call.stage = "copy")'
  BY <1>3, <1>5
<1>11. At(cis', in') = call'.from + Len(call'.got)
       /\ (Len(call'.got) > 0 => At(cis', in') <= Len(file'))
  BY <1>1, <1>2, <1>5
<1>12. \A j \in 1 .. Len(call'.got) : call'.got[j] = file'[call'.from + j]
  BY <1>1, <1>2, <1>5
<1> QED
  BY <1>4, <1>7, <1>8, <1>9, <1>10, <1>11, <1>12 DEF CallOK, At

\* A step that takes nothing: it notes the end of a message, or moves on in
\* the call.
LEMMA StillKeeps ==
  ASSUME WriterInv, CursorInv, closed = "gone", UNCHANGED outVars, cis.open,
         NEW b \in BOOLEAN,
         cis' = cis \/ cis' = [cis EXCEPT !.legitimate_message_end_ = b],
         UNCHANGED <<in, limits>>, CallOK'
  PROVE  CursorInv'
<1>1. Held(cis, in)
  BY ReaderState
<1>2. in' = in /\ limits' = limits
  OBVIOUS
<1>3. /\ Held(cis, in') /\ SameReader(cis, cis) /\ SameInput(in, in')
      /\ Lag(cis, in') = Lag(cis, in) /\ (Dry(in) => Dry(in'))
  BY <1>1, <1>2 DEF SameReader, SameInput
<1> QED
  BY <1>2, <1>3, TakingKeeps

LEMMA JoinedBytes ==
  ASSUME NEW a \in Bytes, NEW b \in Bytes, NEW g, g = a \o b
  PROVE  g \in Bytes /\ Joined(g, a, b)
<1>1. a \in Seq(Nat) /\ b \in Seq(Nat) /\ Len(a) \in Nat /\ Len(b) \in Nat
  BY DEF Bytes
<1>2. /\ g \in Seq(Nat) /\ Len(g) = Len(a) + Len(b)
      /\ \A j \in 1 .. Len(a) + Len(b) :
           g[j] = IF j <= Len(a) THEN a[j] ELSE b[j - Len(a)]
  BY <1>1, ConcatProperties
<1>3. \A j \in 1 .. Len(a) : g[j] = a[j]
  BY <1>1, <1>2
<1>4. ASSUME NEW j \in 1 .. Len(b) PROVE g[Len(a) + j] = b[j]
  <2>1. /\ Len(a) + j \in 1 .. Len(a) + Len(b)
        /\ ~(Len(a) + j <= Len(a)) /\ Len(a) + j - Len(a) = j
    BY <1>1
  <2> QED
    BY <1>2, <2>1
<1> QED
  BY <1>2, <1>3, <1>4 DEF Bytes, Joined

LEMMA CopyOutKeeps ==
  ASSUME WriterInv, CursorInv, closed = "gone", UNCHANGED outVars, CopyOut
  PROVE  CursorInv'
<1> DEFINE missing == call.n - Len(call.got)
<1>1. /\ call.stage = "copy" /\ limits' = limits
      /\ \/ /\ missing <= cis.buffer_size_
            /\ Return(TRUE, call.got \o Front(cis.buffer_, missing),
                      Advance(cis, missing))
            /\ in' = in
         \/ /\ missing > cis.buffer_size_
            /\ \E o \in Refresh(cis) :
                 /\ in' = o.in
                 /\ \/ /\ o.ok
                       /\ call' = [call EXCEPT !.got = @ \o Readable(cis)]
                       /\ cis' = o.c
                    \/ ~o.ok /\ Return(FALSE, <<>>, o.c)
  BY Zenon DEF CopyOut
<1>2. /\ cis.open /\ call.n \in Int /\ Len(call.got) \in Nat
      /\ call.got \in Bytes /\ Len(call.got) <= call.n
      /\ call.stage # "none"
  BY <1>1, CallOf
<1>3. /\ file \in Bytes /\ Held(cis, in)
  BY ReaderState
<1>4. /\ Readable(cis) \in Bytes /\ Len(Readable(cis)) = cis.buffer_size_
      /\ cis.buffer_size_ \in Nat
      /\ \A j \in 1 .. cis.buffer_size_ : Readable(cis)[j] = cis.buffer_[j]
  BY <1>3, ReadableOf
<1>5. missing \in Nat /\ Len(call.got) + missing = call.n
  BY <1>2
<1> HIDE DEF missing
<1>c. ~(missing <= cis.buffer_size_ /\ missing > cis.buffer_size_)
  BY <1>4, <1>5
<1>6. CASE missing <= cis.buffer_size_
  <2>1. cis' = Advance(cis, missing) /\ call' = NoCall /\ in' = in
    BY <1>1, <1>c, <1>6, Zenon DEF Return
  <2>2. missing \in 0 .. cis.buffer_size_
    BY <1>4, <1>5, <1>6
  <2> QED
    BY <1>1, <1>2, <2>1, <2>2, AdvanceReturns
<1>7. CASE missing > cis.buffer_size_
  <2>1. PICK o \in Refresh(cis) :
          /\ in' = o.in
          /\ \/ /\ o.ok
                /\ call' = [call EXCEPT !.got = @ \o Readable(cis)]
                /\ cis' = o.c
             \/ ~o.ok /\ Return(FALSE, <<>>, o.c)
    BY <1>1, <1>c, <1>7, Zenon
  <2>2. cis' = o.c
    BY <2>1 DEF Return
  <2>3. /\ SameReader(cis, o.c)
        /\ At(o.c, o.in) = At(cis, in) + cis.buffer_size_
    BY <1>3, RefreshOf
  <2>4. CASE o.ok
    <3> DEFINE g == call.got \o Readable(cis)
    <3>1. call' = [call EXCEPT !.got = g]
      BY <2>1, <2>4
    <3>2. g \in Bytes /\ Joined(g, call.got, Readable(cis))
      BY <1>2, <1>4, JoinedBytes
    <3> HIDE DEF g
    <3>3. GotBy(g, cis.buffer_size_)
      BY <1>4, <3>2 DEF Joined, GotBy
    <3>4. Len(g) = Len(call.got) + cis.buffer_size_
      BY <3>3 DEF GotBy
    <3>5. Len(g) < call.n
      BY <1>2, <1>4, <1>5, <1>7, <3>4
    <3>6. cis'.open /\ At(cis', in') = At(cis, in) + cis.buffer_size_
      BY <1>2, <2>1, <2>2, <2>3 DEF SameReader
    <3>7. cis.buffer_size_ \in 0 .. cis.buffer_size_
      BY <1>4
    <3>8. call.stage = "copy" /\ call.stage \notin {"fallback", "varint"}
          /\ call.stage # "bytes"
      BY <1>1
    <3>9. CallOK'
      BY <1>2, <3>1, <3>2, <3>3, <3>5, <3>6, <3>7, <3>8, MoreKeepsCall
    <3> QED
      BY <1>1, <1>2, <2>1, <2>2, <3>9, TRUE \in BOOLEAN, RefreshKeeps
  <2>5. CASE ~o.ok
    <3>1. CallOK'
      BY <2>1, <2>5, NoCallOK DEF Return
    <3> QED
      BY <1>1, <1>2, <2>1, <2>2, <3>1, TRUE \in BOOLEAN, RefreshKeeps
  <2> QED
    BY <2>4, <2>5
<1> QED
  BY <1>4, <1>5, <1>6, <1>7

\* A refill while nothing can be read, and the call goes on.
LEMMA RefillKeeps ==
  ASSUME WriterInv, CursorInv, closed = "gone", UNCHANGED outVars,
         call.stage \in {"fallback", "bytes"}, cis.buffer_size_ = 0,
         NEW o \in Refresh(cis), in' = o.in, cis' = o.c,
         UNCHANGED <<limits, call>>
  PROVE  CursorInv'
<1>1. /\ cis.open /\ call.got \in Bytes /\ Len(call.got) \in Nat
      /\ call.stage # "none" /\ call.stage # "copy"
      /\ call \in [op : {"Read", "ReadVarint"},
                   stage : {"copy", "fallback", "varint", "bytes"},
                   n : Int, got : Bytes, from : Nat]
      /\ call.stage = "bytes" =>
           /\ Len(call.got) <= MaxVarint
           /\ \A j \in 1 .. Len(call.got) : call.got[j] \in High
  BY CallOf
<1>2. /\ SameReader(cis, o.c)
      /\ At(o.c, o.in) = At(cis, in) + cis.buffer_size_
  BY ReaderState, RefreshOf
<1>3. /\ call' = [call EXCEPT !.got = call.got] /\ limits' = limits
  BY <1>1
<1>4. /\ cis'.open /\ At(cis', in') = At(cis, in) + 0
  BY <1>1, <1>2 DEF SameReader
<1>5. 0 \in 0 .. cis.buffer_size_ /\ GotBy(call.got, 0)
  BY <1>1 DEF GotBy
<1>6. call.stage = "bytes" => Unended(call.got)
  BY <1>1 DEF Unended
<1>7. /\ call.stage # "none" /\ call.got \in Bytes
      /\ call.stage = "copy" => Len(call.got) < call.n
      /\ call.stage \in {"fallback", "varint"} => 0 = 0
  BY <1>1
<1>8. call' = [call EXCEPT !.got = call.got]
  BY <1>3
<1>9. CallOK'
  BY <1>4, <1>5, <1>6, <1>7, <1>8, MoreKeepsCall, Zenon
<1> QED
  BY <1>1, <1>3, <1>9, TRUE \in BOOLEAN, RefreshKeeps

LEMMA AtVarintKeeps ==
  ASSUME WriterInv, CursorInv, closed = "gone", UNCHANGED outVars, AtVarint
  PROVE  CursorInv'
<1>1. call.stage = "fallback" /\ limits' = limits
  BY DEF AtVarint
<1>2. /\ cis.open /\ call.got = <<>> /\ call.op = "ReadVarint"
      /\ call \in [op : {"Read", "ReadVarint"},
                   stage : {"copy", "fallback", "varint", "bytes"},
                   n : Int, got : Bytes, from : Nat]
      /\ At(cis, in) = call.from + Len(call.got)
      /\ Len(call.got) > 0 => At(cis, in) <= Len(file)
      /\ \A j \in 1 .. Len(call.got) : call.got[j] = file[call.from + j]
  BY <1>1, CallOf
<1>3. ASSUME cis.buffer_size_ > 0, call' = [call EXCEPT !.stage = "varint"],
             UNCHANGED <<in, cis, ret>>
      PROVE  CursorInv'
  <2>1. /\ call' \in [op : {"Read", "ReadVarint"},
                      stage : {"copy", "fallback", "varint", "bytes"},
                      n : Int, got : Bytes, from : Nat]
        /\ call'.op = "ReadVarint" /\ call'.stage = "varint"
        /\ call'.got = <<>> /\ call'.from = call.from
    BY <1>2, <1>3
  <2>2. /\ cis' = cis /\ in' = in /\ file' = file
    BY <1>3 DEF outVars
  <2>3. CallOK'
    BY <1>2, <2>1, <2>2 DEF CallOK, At
  <2> QED
    BY <1>1, <1>2, <2>2, <2>3, TRUE \in BOOLEAN, StillKeeps
<1>4. ASSUME Return(FALSE, <<>>, [cis EXCEPT !.legitimate_message_end_ = TRUE]),
             in' = in
      PROVE  CursorInv'
  <2>1. CallOK' /\ cis' = [cis EXCEPT !.legitimate_message_end_ = TRUE]
    BY <1>4, NoCallOK DEF Return
  <2> QED
    BY <1>1, <1>2, <1>4, <2>1, TRUE \in BOOLEAN, StillKeeps
<1>5. ASSUME cis.buffer_size_ = 0, NEW o \in Refresh(cis), in' = o.in,
             cis' = o.c, UNCHANGED call
      PROVE  CursorInv'
  <2>1. call.stage \in {"fallback", "bytes"} /\ UNCHANGED <<limits, call>>
    BY <1>1, <1>5
  <2> QED
    BY <1>5, <2>1, RefillKeeps
<1>6. ASSUME NEW o \in Refresh(cis), in' = o.in, NEW b \in BOOLEAN,
             Return(FALSE, <<>>, [o.c EXCEPT !.legitimate_message_end_ = b])
      PROVE  CursorInv'
  <2>1. CallOK' /\ cis' = [o.c EXCEPT !.legitimate_message_end_ = b]
    BY <1>6, NoCallOK DEF Return
  <2> QED
    BY <1>1, <1>2, <1>6, <2>1, RefreshKeeps
<1>7. \/ /\ cis.buffer_size_ > 0
         /\ call' = [call EXCEPT !.stage = "varint"]
         /\ UNCHANGED <<in, cis, ret>>
      \/ /\ Return(FALSE, <<>>, [cis EXCEPT !.legitimate_message_end_ = TRUE])
         /\ in' = in
      \/ /\ cis.buffer_size_ = 0
         /\ \E o \in Refresh(cis) :
              /\ in' = o.in
              /\ \/ cis' = o.c /\ UNCHANGED call
                 \/ \E b \in BOOLEAN :
                      Return(FALSE, <<>>,
                        [o.c EXCEPT !.legitimate_message_end_ = b])
  <2> DEFINE Ends(o) ==
        \/ Position(o.c) < o.c.total_bytes_limit_
        \/ o.c.current_limit_ = o.c.total_bytes_limit_
  <2>1. \A o : Ends(o) \in BOOLEAN
    OBVIOUS
  <2>2. \/ /\ cis.buffer_size_ > 0
           /\ call' = [call EXCEPT !.stage = "varint"]
           /\ UNCHANGED <<in, cis, ret>>
        \/ /\ Return(FALSE, <<>>, [cis EXCEPT !.legitimate_message_end_ = TRUE])
           /\ in' = in
        \/ /\ cis.buffer_size_ = 0
           /\ \E o \in Refresh(cis) :
                /\ in' = o.in
                /\ \/ cis' = o.c /\ UNCHANGED call
                   \/ Return(FALSE, <<>>,
                        [o.c EXCEPT !.legitimate_message_end_ = Ends(o)])
    BY Zenon DEF AtVarint
  <2> HIDE DEF Ends
  <2> QED
    BY <2>1, <2>2, Zenon
<1> QED
  BY <1>3, <1>4, <1>5, <1>6, <1>7

LEMMA FastVarintKeeps ==
  ASSUME WriterInv, CursorInv, closed = "gone", UNCHANGED outVars, FastVarint
  PROVE  CursorInv'
<1> DEFINE k == VarintLen(Readable(cis))
<1>1. /\ call.stage = "varint" /\ UNCHANGED <<in, limits>>
      /\ cis' = Advance(cis, k) /\ call' = NoCall
  BY Zenon DEF FastVarint, Return
<1>2. cis.open
  BY <1>1, CallOf
<1>3. Readable(cis) \in Bytes /\ Len(Readable(cis)) = cis.buffer_size_
  BY ReaderState, ReadableOf
<1>4. k \in 0 .. Len(Readable(cis))
  BY <1>3, VarintLenOf
<1> HIDE DEF k
<1>5. k \in 0 .. cis.buffer_size_
  BY <1>3, <1>4
<1> QED
  BY <1>1, <1>2, <1>5, AdvanceReturns

LEMMA SlowVarintKeeps ==
  ASSUME WriterInv, CursorInv, closed = "gone", UNCHANGED outVars, SlowVarint
  PROVE  CursorInv'
<1>1. /\ call.stage = "varint" /\ UNCHANGED <<in, cis, limits>>
      /\ call' = [call EXCEPT !.stage = "bytes"]
  BY DEF SlowVarint
<1>2. /\ cis.open /\ call.got = <<>> /\ call.op = "ReadVarint"
      /\ call \in [op : {"Read", "ReadVarint"},
                   stage : {"copy", "fallback", "varint", "bytes"},
                   n : Int, got : Bytes, from : Nat]
      /\ At(cis, in) = call.from + Len(call.got)
      /\ Len(call.got) > 0 => At(cis, in) <= Len(file)
      /\ \A j \in 1 .. Len(call.got) : call.got[j] = file[call.from + j]
  BY <1>1, CallOf
<1>3. /\ call' \in [op : {"Read", "ReadVarint"},
                    stage : {"copy", "fallback", "varint", "bytes"},
                    n : Int, got : Bytes, from : Nat]
      /\ call'.op = "ReadVarint" /\ call'.stage = "bytes"
      /\ call'.got = <<>> /\ call'.from = call.from
  BY <1>1, <1>2
<1>4. cis' = cis /\ in' = in /\ file' = file /\ limits' = limits
  BY <1>1 DEF outVars
<1>5. Len(<<>>) <= MaxVarint /\ \A j \in 1 .. Len(<<>>) : <<>>[j] \in High
  BY MaxVarintAssumption
<1>6. CallOK'
  BY <1>2, <1>3, <1>4, <1>5 DEF CallOK, At
<1> QED
  BY <1>2, <1>4, <1>6, TRUE \in BOOLEAN, StillKeeps

LEMMA VarintByteKeeps ==
  ASSUME WriterInv, CursorInv, closed = "gone", UNCHANGED outVars, VarintByte
  PROVE  CursorInv'
<1>1. call.stage = "bytes" /\ limits' = limits
  BY DEF VarintByte
<1>2. /\ cis.open /\ call.got \in Bytes /\ Len(call.got) \in Nat
      /\ call.stage # "none" /\ call.stage # "copy"
      /\ call.stage \notin {"fallback", "varint"}
      /\ \A j \in 1 .. Len(call.got) : call.got[j] \in High
  BY <1>1, CallOf
<1>3. /\ file \in Bytes /\ Held(cis, in)
  BY ReaderState
<1>4. /\ Readable(cis) \in Bytes /\ Len(Readable(cis)) = cis.buffer_size_
      /\ cis.buffer_size_ \in Nat /\ cis.buffer_ \in Bytes
      /\ cis.buffer_size_ <= Len(cis.buffer_)
  BY <1>3, ReadableOf
<1>5. ASSUME Return(FALSE, <<>>, cis), in' = in PROVE CursorInv'
  <2>1. cis' = cis /\ CallOK'
    BY <1>5, NoCallOK DEF Return
  <2> QED
    BY <1>1, <1>2, <1>5, <2>1, TRUE \in BOOLEAN, StillKeeps
<1>6. ASSUME cis.buffer_size_ = 0, NEW o \in Refresh(cis), in' = o.in,
             cis' = o.c, UNCHANGED call
      PROVE  CursorInv'
  <2>1. call.stage \in {"fallback", "bytes"} /\ UNCHANGED <<limits, call>>
    BY <1>1, <1>6
  <2> QED
    BY <1>6, <2>1, RefillKeeps
<1>7. ASSUME NEW o \in Refresh(cis), in' = o.in, Return(FALSE, <<>>, o.c)
      PROVE  CursorInv'
  <2>1. cis' = o.c /\ CallOK'
    BY <1>7, NoCallOK DEF Return
  <2> QED
    BY <1>1, <1>2, <1>7, <2>1, TRUE \in BOOLEAN, RefreshKeeps
<1>8. ASSUME cis.buffer_size_ > 0, NEW g, g = Append(call.got, cis.buffer_[1]),
             Len(call.got) < MaxVarint, cis' = Advance(cis, 1), in' = in,
             \/ call' = NoCall
             \/ /\ cis.buffer_[1] \in High
                /\ call' = [call EXCEPT !.got = g]
      PROVE  CursorInv'
  <2>1. 1 \in 0 .. cis.buffer_size_ /\ 1 \in 1 .. Len(cis.buffer_)
    BY <1>4, <1>8
  <2>2. /\ Held(cis', in) /\ SameReader(cis, cis')
        /\ At(cis', in) = At(cis, in) + 1
        /\ Lag(cis', in) = Lag(cis, in)
        /\ cis.buffer_ = <<>> => cis'.buffer_ = <<>>
    BY <1>3, <1>8, <2>1, AdvanceHeld
  <2>3. in' = in
    BY <1>8
  <2>4. CASE call' = NoCall
    BY <1>1, <1>2, <1>8, <2>1, <2>4, AdvanceReturns
  <2>5. CASE cis.buffer_[1] \in High /\ call' = [call EXCEPT !.got = g]
    <3> DEFINE b == cis.buffer_[1]
    <3>1. b \in Nat
      BY <1>4, <2>1, ElementOfSeq DEF Bytes
    <3>2. /\ g \in Seq(Nat) /\ Len(g) = Len(call.got) + 1
          /\ \A j \in 1 .. Len(call.got) : g[j] = call.got[j]
          /\ g[Len(call.got) + 1] = b
      <4> HIDE DEF b
      <4>1. call.got \in Seq(Nat)
        BY <1>2 DEF Bytes
      <4>2. g = Append(call.got, b)
        BY <1>8 DEF b
      <4> QED
        BY <3>1, <4>1, <4>2, AppendProperties
    <3>3. GotBy(g, 1)
      <4>1. \A j \in 1 .. 1 : g[Len(call.got) + j] = cis.buffer_[j]
        BY <3>2
      <4> QED
        BY <3>2, <4>1 DEF GotBy
    <3>4. Unended(g)
      <4>1. Len(g) <= MaxVarint
        BY <1>2, <1>8, <3>2, MaxVarintAssumption
      <4>2. ASSUME NEW j \in 1 .. Len(g) PROVE g[j] \in High
        <5>1. j \in 1 .. Len(call.got) \/ j = Len(call.got) + 1
          BY <1>2, <3>2
        <5> QED
          BY <1>2, <2>5, <3>2, <5>1
      <4> QED
        BY <4>1, <4>2 DEF Unended
    <3>5. g \in Bytes
      BY <3>2 DEF Bytes
    <3>6. cis'.open /\ At(cis', in') = At(cis, in) + 1
      BY <1>2, <2>2, <2>3 DEF SameReader
    <3>7. /\ call.stage # "none"
          /\ call.stage = "copy" => Len(g) < call.n
          /\ call.stage \in {"fallback", "varint"} => 1 = 0
      BY <1>2
    <3>8. CallOK'
      BY <2>1, <2>5, <3>3, <3>4, <3>5, <3>6, <3>7, MoreKeepsCall, Zenon
    <3>9. SameInput(in, in') /\ Held(cis', in') /\ Lag(cis', in') = Lag(cis, in)
          /\ (Dry(in) => Dry(in'))
      BY <2>2, <2>3 DEF SameInput
    <3> QED
      BY <1>1, <1>2, <2>2, <3>8, <3>9, TRUE \in BOOLEAN, TakingKeeps
  <2> QED
    BY <1>8, <2>4, <2>5
<1>9. \/ Return(FALSE, <<>>, cis) /\ in' = in
      \/ /\ Len(call.got) < MaxVarint /\ cis.buffer_size_ = 0
         /\ \E o \in Refresh(cis) :
              /\ in' = o.in
              /\ \/ cis' = o.c /\ UNCHANGED call
                 \/ Return(FALSE, <<>>, o.c)
      \/ /\ Len(call.got) < MaxVarint /\ cis.buffer_size_ > 0
         /\ cis' = Advance(cis, 1) /\ in' = in
         /\ \/ call' = NoCall
            \/ /\ cis.buffer_[1] \in High
               /\ call' = [call EXCEPT !.got = Append(call.got, cis.buffer_[1])]
  BY Zenon DEF VarintByte, Return
<1> QED
  BY <1>5, <1>6, <1>7, <1>8, <1>9

\* A call begins with the bytes that are next.
LEMMA BeginKeeps ==
  ASSUME WriterInv, CursorInv, closed = "gone", UNCHANGED outVars,
         NEW op, NEW stage, NEW n \in Int, Begin(op, stage, n),
         \/ op = "Read" /\ stage = "copy" /\ n >= 0
         \/ op = "ReadVarint" /\ stage \in {"varint", "fallback"}
  PROVE  CursorInv'
<1>1. /\ cis.open /\ UNCHANGED <<in, cis, limits>>
      /\ call' = [op |-> op, stage |-> stage, n |-> n, got |-> <<>>,
                  from |-> Cursor]
  BY Zenon DEF Begin, Idle
<1>2. Cursor = At(cis, in) /\ At(cis, in) \in Nat
  BY ReaderState, HeldOf, Zenon DEF Cursor, At
<1>3. /\ call'.op = op /\ call'.stage = stage /\ call'.n = n
      /\ call'.got = <<>> /\ call'.from = At(cis, in)
  BY <1>1, <1>2
<1>4. call' \in [op : {"Read", "ReadVarint"},
                 stage : {"copy", "fallback", "varint", "bytes"},
                 n : Int, got : Bytes, from : Nat]
  <2>1. /\ op \in {"Read", "ReadVarint"} /\ n \in Int /\ <<>> \in Bytes
        /\ stage \in {"copy", "fallback", "varint", "bytes"} /\ Cursor \in Nat
    BY <1>2, EmptyBytes
  <2> QED
    BY <1>1, <2>1
<1>5. cis' = cis /\ in' = in /\ At(cis', in') = At(cis, in)
  BY <1>1
<1>6. Len(<<>>) = 0 /\ At(cis, in) + 0 = At(cis, in)
  BY <1>2, EmptyBytes
<1>7. call'.stage = "copy" =>
        Len(call'.got) <= call'.n /\ (call'.n > 0 => Len(call'.got) < call'.n)
  BY <1>3, <1>6
<1>8. /\ (call'.op = "Read" <=> call'.stage = "copy") /\ call'.stage # "bytes"
      /\ call'.stage \in {"fallback", "varint"} => call'.got = <<>>
  BY <1>3
<1>9. At(cis', in') = call'.from + Len(call'.got) /\ ~(Len(call'.got) > 0)
  BY <1>3, <1>5, <1>6
<1>10. \A j \in 1 .. Len(call'.got) : call'.got[j] = file'[call'.from + j]
  BY <1>3, <1>6
<1>11. CallOK'
  BY <1>1, <1>4, <1>5, <1>7, <1>8, <1>9, <1>10 DEF CallOK, At
<1> QED
  BY <1>1, <1>5, <1>11, TRUE \in BOOLEAN, StillKeeps

LEMMA ExpectTagKeeps ==
  ASSUME WriterInv, CursorInv, closed = "gone", UNCHANGED outVars,
         NEW k \in 0 .. 2, ExpectTag(k)
  PROVE  CursorInv'
<1> DEFINE hit == k \in {1, 2} /\ VarintLen(Readable(cis)) = k
           n == IF hit THEN k ELSE 0
<1>1. /\ cis.open /\ call = NoCall /\ UNCHANGED <<in, limits>> /\ call' = call
      /\ cis' = Advance(cis, n)
  BY Zenon DEF ExpectTag, AtOnce, Idle
<1>2. /\ Readable(cis) \in Bytes /\ Len(Readable(cis)) = cis.buffer_size_
      /\ cis.buffer_size_ \in Nat
  BY ReaderState, ReadableOf
<1>3. VarintLen(Readable(cis)) \in 0 .. Len(Readable(cis))
  BY <1>2, VarintLenOf
<1>4. n \in 0 .. cis.buffer_size_
  BY <1>2, <1>3
<1> HIDE DEF n
<1>5. call' = NoCall
  BY <1>1
<1> QED
  BY <1>1, <1>4, <1>5, AdvanceReturns

LEMMA ExpectAtEndKeeps ==
  ASSUME WriterInv, CursorInv, closed = "gone", UNCHANGED outVars, ExpectAtEnd
  PROVE  CursorInv'
<1> DEFINE b == \/ cis.legitimate_message_end_
                \/ cis.buffer_size_ = 0 /\ cis.buffer_size_after_limit_ # 0
<1>1. /\ cis.open /\ call = NoCall /\ UNCHANGED <<in, limits>> /\ call' = call
      /\ cis' = [cis EXCEPT !.legitimate_message_end_ = b]
  BY Zenon DEF ExpectAtEnd, AtOnce, Idle
<1>2. b \in BOOLEAN
  OBVIOUS
<1> HIDE DEF b
<1>3. call' = NoCall
  BY <1>1
<1>4. CallOK'
  BY <1>3, NoCallOK
<1> QED
  BY <1>1, <1>2, <1>4, StillKeeps
-----------------------------------------------------------------------------
(* Limits: they may bring the bytes of the buffer to this side or the other.  *)

\* Only the limits differ, and they have not been passed.
SameCounts(c, e) ==
  /\ e.open = c.open /\ e.base = c.base /\ e.buffer_ = c.buffer_
  /\ e.buffer_size_ = c.buffer_size_
  /\ e.total_bytes_read_ = c.total_bytes_read_
  /\ e.overflow_bytes_ = c.overflow_bytes_
  /\ e.buffer_size_after_limit_ = c.buffer_size_after_limit_

LimitsFit(e) ==
  /\ e.current_limit_ <= IntMax /\ e.total_bytes_limit_ < IntMax
  /\ Position(e) \in 0 .. Closest(e)

\* Counting the buffer anew neither moves the reader nor changes its bytes.
LEMMA RecomputeHeld ==
  ASSUME NEW c, NEW i, Held(c, i), NEW e \in CodedInputs,
         SameCounts(c, e), LimitsFit(e),
         NEW d, d = RecomputeBufferLimits(e)
  PROVE  /\ Held(d, i) /\ At(d, i) = At(c, i) /\ Lag(d, i) = Lag(c, i)
         /\ Position(d) = Position(c)
         /\ d.open = c.open /\ d.base = c.base /\ d.buffer_ = c.buffer_
         /\ d.current_limit_ = e.current_limit_
         /\ d.total_bytes_limit_ = e.total_bytes_limit_
         /\ d.legitimate_message_end_ = e.legitimate_message_end_
<1>1. CountsOK(c) /\ InputOK(i, Len(c.buffer_)) /\ Holds(c, i)
  BY DEF Held
<1>2. /\ Len(e.buffer_)
           = e.buffer_size_ + e.buffer_size_after_limit_ + e.overflow_bytes_
      /\ e.total_bytes_read_ <= IntMax
      /\ e.overflow_bytes_ > 0 => e.total_bytes_read_ = IntMax
  BY <1>1 DEF CountsOK, SameCounts
<1>3. /\ CountsOK(d) /\ Position(d) = Position(e)
      /\ d.open = e.open /\ d.base = e.base /\ d.buffer_ = e.buffer_
      /\ d.total_bytes_read_ = e.total_bytes_read_
      /\ d.overflow_bytes_ = e.overflow_bytes_
      /\ d.legitimate_message_end_ = e.legitimate_message_end_
      /\ d.current_limit_ = e.current_limit_
      /\ d.total_bytes_limit_ = e.total_bytes_limit_
  BY <1>2, RecomputeOf DEF LimitsFit
<1>4. Position(e) = Position(c)
  BY DEF Position, SameCounts
<1>5. Holds(d, i) /\ At(d, i) = At(c, i) /\ Lag(d, i) = Lag(c, i)
  BY <1>1, <1>3 DEF Holds, At, Lag, SameCounts
<1> QED
  BY <1>1, <1>3, <1>4, <1>5 DEF Held, SameCounts

\* A step that sets limits.
LEMMA LimitingKeeps ==
  ASSUME WriterInv, CursorInv, closed = "gone", UNCHANGED outVars, Idle,
         NEW e \in CodedInputs,
         SameCounts(cis, e), LimitsFit(e),
         cis' = RecomputeBufferLimits(e), in' = in, call' = call,
         cis'.current_limit_ = e.current_limit_ => LimitsOK'
  PROVE  CursorInv'
<1>1. /\ Held(cis, in) /\ (Exact(in) => CountOK(cis, in))
      /\ cis.open /\ call = NoCall
  BY ReaderState DEF Idle
<1>2. /\ Held(cis', in) /\ Lag(cis', in) = Lag(cis, in)
      /\ cis'.open = cis.open /\ cis'.buffer_ = cis.buffer_
      /\ cis'.current_limit_ = e.current_limit_
  <2>1. Held(cis, in) /\ cis' = RecomputeBufferLimits(e)
    BY <1>1
  <2> QED
    BY <2>1, RecomputeHeld
<1>3. Exact(in) => CountOK(cis', in')
  BY <1>1, <1>2 DEF CountOK
<1>4. CallOK'
  BY <1>1, NoCallOK
<1> QED
  BY <1>1, <1>2, <1>3, <1>4, ReaderMoves

LEMMA PushLimitKeeps ==
  ASSUME WriterInv, CursorInv, closed = "gone", UNCHANGED outVars,
         NEW n \in LimitSizes, PushLimit(n)
  PROVE  CursorInv'
<1> DEFINE position == Position(cis)
           current == cis.current_limit_
           total == cis.total_bytes_limit_
           wanted == IF n >= 0 /\ n <= IntMax - position
                     THEN position + n ELSE IntMax
           inner == Least(wanted, current)
           e == [cis EXCEPT !.current_limit_ = inner]
<1>1. /\ Idle /\ cis' = RecomputeBufferLimits(e) /\ in' = in /\ call' = call
      /\ limits' = Append(limits, current)
  BY Zenon DEF PushLimit, AtOnce
<1>2. /\ cis \in CodedInputs /\ CountsOK(cis) /\ LimitsOK
  BY ReaderState
<1>3. /\ current \in Nat /\ total \in Nat /\ n \in Int /\ IntMax \in Nat
      /\ current <= IntMax /\ total < IntMax
      /\ position \in Nat /\ position <= current /\ position <= total
  <2> HIDE DEF position, current, total
  <2>1. /\ current \in Nat /\ total \in Nat /\ n \in Int /\ IntMax \in Nat
        /\ current <= IntMax /\ total < IntMax
    BY <1>2, CodedFields, IntMaxAssumption, SizesAssumption
       DEF current, total, CountsOK
  <2>2. /\ position \in Nat /\ position <= Closest(cis) /\ Closest(cis) \in Nat
        /\ Closest(cis) <= current /\ Closest(cis) <= total
    BY <1>2, CountsOf, CodedFields DEF position, current, total
  <2> QED
    BY <2>1, <2>2
<1> HIDE DEF position, current, total
<1>4. inner \in Nat /\ inner <= current /\ inner <= IntMax /\ position <= inner
  BY <1>3 DEF Least
<1> HIDE DEF inner
<1>5. /\ e \in CodedInputs /\ SameCounts(cis, e)
      /\ e.current_limit_ = inner /\ e.total_bytes_limit_ = total
  BY <1>2, <1>4 DEF CodedInputs, SameCounts, total
<1> HIDE DEF e
<1>6. Position(e) = position
  BY <1>5 DEF Position, SameCounts, position
<1>7. Closest(e) = Least(inner, total)
  BY <1>5 DEF Closest
<1>8. LimitsFit(e)
  <2>1. Position(e) \in 0 .. Closest(e)
    BY <1>3, <1>4, <1>6, <1>7 DEF Least
  <2> QED
    BY <1>3, <1>4, <1>5, <2>1 DEF LimitsFit
<1>9. ASSUME cis'.current_limit_ = e.current_limit_ PROVE LimitsOK'
  <2>1. /\ limits \in Seq(0 .. IntMax) /\ Len(limits) \in Nat
        /\ \A j \in 1 .. Len(limits) - 1 : limits[j + 1] <= limits[j]
        /\ limits # <<>> => current <= limits[Len(limits)]
    BY <1>2 DEF LimitsOK, current
  <2>2. current \in 0 .. IntMax
    BY <1>3
  <2>3. /\ limits' \in Seq(0 .. IntMax) /\ limits' # <<>>
        /\ Len(limits') = Len(limits) + 1
        /\ \A j \in 1 .. Len(limits) : limits'[j] = limits[j]
        /\ limits'[Len(limits) + 1] = current
    BY <1>1, <2>1, <2>2, AppendProperties
  <2>4. ASSUME NEW j \in 1 .. Len(limits') - 1
        PROVE  limits'[j + 1] <= limits'[j]
    <3>1. j \in 1 .. Len(limits) /\ limits'[j] = limits[j]
      BY <2>1, <2>3
    <3>2. CASE j = Len(limits)
      <4>1. limits # <<>>
        BY <3>1, <3>2
      <4> QED
        BY <2>1, <2>3, <3>1, <3>2, <4>1
    <3>3. CASE j # Len(limits)
      <4>1. j \in 1 .. Len(limits) - 1 /\ j + 1 \in 1 .. Len(limits)
        BY <2>1, <3>1, <3>3
      <4> QED
        BY <2>1, <2>3, <3>1, <4>1
    <3> QED
      BY <3>2, <3>3
  <2>5. cis'.current_limit_ <= limits'[Len(limits')]
    BY <1>4, <1>5, <1>9, <2>3
  <2> QED
    BY <2>3, <2>4, <2>5 DEF LimitsOK
<1> QED
  BY <1>1, <1>5, <1>8, <1>9, LimitingKeeps

LEMMA PopLimitKeeps ==
  ASSUME WriterInv, CursorInv, closed = "gone", UNCHANGED outVars, PopLimit
  PROVE  CursorInv'
<1> DEFINE outer == limits[Len(limits)]
           e == [cis EXCEPT !.current_limit_ = outer,
                            !.legitimate_message_end_ = FALSE]
<1>1. /\ Idle /\ cis' = RecomputeBufferLimits(e) /\ in' = in /\ call' = call
      /\ limits # <<>> /\ limits' = Front(limits, Len(limits) - 1)
  BY Zenon DEF PopLimit, AtOnce
<1>2. /\ cis \in CodedInputs /\ CountsOK(cis) /\ LimitsOK
  BY ReaderState
<1>3. /\ limits \in Seq(0 .. IntMax) /\ Len(limits) \in Nat /\ Len(limits) > 0
      /\ \A j \in 1 .. Len(limits) - 1 : limits[j + 1] <= limits[j]
      /\ cis.current_limit_ <= outer
  BY <1>1, <1>2, EmptySeq DEF LimitsOK
<1>4. outer \in 0 .. IntMax
  <2>1. Len(limits) \in 1 .. Len(limits)
    BY <1>3
  <2> QED
    BY <1>3, <2>1, ElementOfSeq
<1> HIDE DEF outer
<1>5. /\ e \in CodedInputs /\ SameCounts(cis, e)
      /\ e.current_limit_ = outer
      /\ e.total_bytes_limit_ = cis.total_bytes_limit_
  <2>1. outer \in Nat
    BY <1>4, IntMaxAssumption
  <2> QED
    BY <1>2, <2>1 DEF CodedInputs, SameCounts
<1> HIDE DEF e
<1>6. LimitsFit(e)
  <2>1. /\ Position(cis) \in Nat /\ Position(cis) <= Closest(cis)
        /\ Closest(cis) \in Nat
        /\ Closest(cis) <= cis.current_limit_
        /\ Closest(cis) <= cis.total_bytes_limit_
        /\ cis.current_limit_ \in Nat /\ cis.total_bytes_limit_ \in Nat
    BY <1>2, CountsOf, CodedFields
  <2>2. Position(e) = Position(cis)
    BY <1>5 DEF Position, SameCounts
  <2>3. Closest(e) = Least(outer, cis.total_bytes_limit_)
    BY <1>5 DEF Closest
  <2>4. outer \in Nat /\ cis.current_limit_ <= outer /\ outer <= IntMax
    BY <1>3, <1>4, IntMaxAssumption
  <2>5. Position(e) \in 0 .. Closest(e)
    BY <2>1, <2>2, <2>3, <2>4 DEF Least
  <2>6. cis.total_bytes_limit_ < IntMax
    BY <1>2 DEF CountsOK
  <2> QED
    BY <1>5, <2>4, <2>5, <2>6 DEF LimitsFit
<1>7. ASSUME cis'.current_limit_ = e.current_limit_ PROVE LimitsOK'
  <2>1. Len(limits) - 1 \in 0 .. Len(limits)
    BY <1>3
  <2>2. /\ limits' \in Seq(0 .. IntMax) /\ Len(limits') = Len(limits) - 1
        /\ \A j \in 1 .. Len(limits) - 1 : limits'[j] = limits[j]
    BY <1>1, <1>3, <2>1, FrontOf
  <2>3. ASSUME NEW j \in 1 .. Len(limits') - 1
        PROVE  limits'[j + 1] <= limits'[j]
    <3>1. j \in 1 .. Len(limits) - 1 /\ j + 1 \in 1 .. Len(limits) - 1
      BY <1>3, <2>2
    <3> QED
      BY <1>3, <2>2, <3>1
  <2>4. ASSUME limits' # <<>> PROVE cis'.current_limit_ <= limits'[Len(limits')]
    <3>1. Len(limits') # 0
      BY <2>2, <2>4, EmptySeq
    <3>2. Len(limits) - 1 \in 1 .. Len(limits) - 1
          /\ Len(limits) - 1 + 1 = Len(limits)
      BY <1>3, <2>2, <3>1
    <3>3. outer <= limits[Len(limits) - 1]
      BY <1>3, <3>2 DEF outer
    <3> QED
      BY <1>5, <1>7, <2>2, <3>2, <3>3
  <2> QED
    BY <2>2, <2>3, <2>4 DEF LimitsOK
<1> QED
  BY <1>1, <1>5, <1>6, <1>7, LimitingKeeps

LEMMA SetTotalKeeps ==
  ASSUME WriterInv, CursorInv, closed = "gone", UNCHANGED outVars,
         NEW n \in TotalLimits, SetTotalBytesLimit(n)
  PROVE  CursorInv'
<1> DEFINE position == Position(cis)
           total == Greatest(position, n)
           e == [cis EXCEPT !.total_bytes_limit_ = total]
<1>1. /\ Idle /\ cis' = RecomputeBufferLimits(e) /\ in' = in /\ call' = call
      /\ limits' = limits
  BY Zenon DEF SetTotalBytesLimit, AtOnce
<1>2. /\ cis \in CodedInputs /\ CountsOK(cis) /\ LimitsOK
  BY ReaderState
<1>3. /\ position \in Nat /\ position <= cis.current_limit_
      /\ position < IntMax /\ cis.current_limit_ \in Nat
      /\ cis.current_limit_ <= IntMax /\ IntMax \in Nat
  <2> HIDE DEF position
  <2>1. /\ position \in Nat /\ position <= Closest(cis)
        /\ Closest(cis) <= cis.current_limit_
        /\ Closest(cis) <= cis.total_bytes_limit_
        /\ cis.current_limit_ \in Nat /\ Closest(cis) \in Nat
        /\ cis.total_bytes_limit_ \in Nat
    BY <1>2, CountsOf, CodedFields DEF position
  <2>2. cis.total_bytes_limit_ < IntMax /\ cis.current_limit_ <= IntMax
    BY <1>2 DEF CountsOK
  <2> QED
    BY <2>1, <2>2, IntMaxAssumption
<1> HIDE DEF position
<1>4. total \in Nat /\ total < IntMax /\ position <= total
  <2>1. n \in Nat /\ n < IntMax
    BY TotalLimitsAssumption, IntMaxAssumption
  <2> QED
    BY <1>3, <2>1 DEF Greatest
<1> HIDE DEF total
<1>5. /\ e \in CodedInputs /\ SameCounts(cis, e)
      /\ e.current_limit_ = cis.current_limit_ /\ e.total_bytes_limit_ = total
  BY <1>2, <1>4 DEF CodedInputs, SameCounts
<1> HIDE DEF e
<1>6. LimitsFit(e)
  <2>1. Position(e) = position
    BY <1>5 DEF Position, SameCounts, position
  <2>2. Closest(e) = Least(cis.current_limit_, total)
    BY <1>5 DEF Closest
  <2>3. Position(e) \in 0 .. Closest(e)
    BY <1>3, <1>4, <2>1, <2>2 DEF Least
  <2> QED
    BY <1>3, <1>4, <1>5, <2>3 DEF LimitsFit
<1>7. cis'.current_limit_ = e.current_limit_ => LimitsOK'
  BY <1>1, <1>2, <1>5, LimitsKept
<1> QED
  BY <1>1, <1>5, <1>6, <1>7, LimitingKeeps
-----------------------------------------------------------------------------
(* Skipping beyond the buffer *)

\* The stream that has passed over its buffer and m more bytes.
Beyond(c, m) ==
  [c EXCEPT !.buffer_ = <<>>, !.buffer_size_ = 0,
            !.total_bytes_read_ = c.total_bytes_read_ + m]

LEMMA BeyondOf ==
  ASSUME file \in Bytes, NEW c, NEW i, Held(c, i),
         c.buffer_size_after_limit_ = 0, NEW m \in Nat,
         c.total_bytes_read_ + m <= Closest(c), NEW o \in InSkip(i, m),
         NEW d, d = Beyond(c, m)
  PROVE  /\ Held(d, o.in) /\ SameReader(c, d) /\ d.buffer_ = <<>>
         /\ d.buffer_size_ = 0 /\ d.buffer_size_after_limit_ = 0
         /\ At(d, o.in) = InByteCount(o.in)
         /\ Position(d) = c.total_bytes_read_ + m
         /\ Lag(d, o.in) = Lag(c, i) + m - (InByteCount(o.in) - InByteCount(i))
         /\ At(c, i) + c.buffer_size_ = InByteCount(i)
         /\ Position(c) + c.buffer_size_ = c.total_bytes_read_
         /\ InputOK(i, 0)
<1>1. /\ CountsOK(c) /\ c \in CodedInputs /\ InputOK(i, Len(c.buffer_))
  BY DEF Held, CountsOK
<1>2. /\ c.buffer_size_ \in Nat /\ c.total_bytes_read_ \in Nat
      /\ c.overflow_bytes_ \in Nat /\ c.base \in Nat /\ Len(c.buffer_) \in Nat
      /\ Closest(c) \in Nat /\ Closest(c) <= c.total_bytes_limit_
      /\ c.total_bytes_limit_ \in Nat /\ IntMax \in Nat
      /\ c.current_limit_ \in Nat /\ c.buffer_ \in Bytes
      /\ c.open \in BOOLEAN /\ c.legitimate_message_end_ \in BOOLEAN
  BY <1>1, CodedFields, IntMaxAssumption
<1>3. /\ c.overflow_bytes_ = 0
      /\ Position(c) + c.buffer_size_ = c.total_bytes_read_
      /\ Len(c.buffer_) = c.buffer_size_
  <2>1. /\ c.overflow_bytes_ > 0 => c.buffer_size_after_limit_ > 0
        /\ Position(c) + c.buffer_size_
             = c.total_bytes_read_ - c.buffer_size_after_limit_
    BY <1>1, CountsOf
  <2>2. c.overflow_bytes_ = 0
    BY <1>2, <2>1
  <2>3. Len(c.buffer_)
          = c.buffer_size_ + c.buffer_size_after_limit_ + c.overflow_bytes_
    BY <1>1 DEF CountsOK
  <2> QED
    BY <1>2, <2>1, <2>2, <2>3
<1>4. /\ d \in CodedInputs /\ d.buffer_ = <<>> /\ d.buffer_size_ = 0
      /\ d.total_bytes_read_ = c.total_bytes_read_ + m
      /\ d.open = c.open /\ d.base = c.base
      /\ d.overflow_bytes_ = c.overflow_bytes_
      /\ d.legitimate_message_end_ = c.legitimate_message_end_
      /\ d.current_limit_ = c.current_limit_
      /\ d.buffer_size_after_limit_ = c.buffer_size_after_limit_
      /\ d.total_bytes_limit_ = c.total_bytes_limit_
  <2>1. c.total_bytes_read_ \in Nat
    BY <1>2
  <2>2. c.total_bytes_read_ + m \in Nat
    BY <2>1
  <2>3. <<>> \in Bytes /\ 0 \in Nat
    BY EmptyBytes
  <2> QED
    BY <1>1, <2>2, <2>3 DEF CodedInputs, Beyond
<1> HIDE DEF Beyond
<1>5. SameReader(c, d)
  BY <1>4 DEF SameReader
<1>6. /\ Position(d) = c.total_bytes_read_ + m /\ Closest(d) = Closest(c)
  <2>1. Closest(d) = Closest(c)
    BY <1>4 DEF Closest
  <2>2. /\ d.total_bytes_read_ = c.total_bytes_read_ + m
        /\ d.buffer_size_ = 0 /\ d.buffer_size_after_limit_ = 0
    BY <1>4
  <2>3. Position(d)
          = d.total_bytes_read_ - (d.buffer_size_ + d.buffer_size_after_limit_)
    BY DEF Position
  <2>4. c.total_bytes_read_ \in Nat
    BY <1>2
  <2>5. Position(d) = c.total_bytes_read_ + m
    BY <2>2, <2>3, <2>4
  <2> QED
    BY <2>1, <2>5
<1>7. CountsOK(d)
  <2>1. Len(d.buffer_)
          = d.buffer_size_ + d.buffer_size_after_limit_ + d.overflow_bytes_
    BY <1>3, <1>4, EmptyBytes
  <2>2. d.buffer_size_after_limit_
          = Greatest(0, d.total_bytes_read_ - Closest(d))
    <3>1. d.total_bytes_read_ - Closest(d) <= 0
      BY <1>2, <1>4, <1>6
    <3> QED
      BY <1>2, <1>4, <1>6, <3>1 DEF Greatest
  <2>3. d.total_bytes_limit_ < IntMax /\ d.current_limit_ <= IntMax
    BY <1>1, <1>4 DEF CountsOK
  <2>4. d.total_bytes_read_ <= IntMax
    <3>1. c.total_bytes_limit_ < IntMax
      BY <1>1 DEF CountsOK
    <3> QED
      BY <1>2, <1>4, <3>1
  <2>5. Position(d) \in 0 .. Closest(d)
    BY <1>2, <1>6
  <2>6. ~(d.overflow_bytes_ > 0)
    BY <1>3, <1>4
  <2> QED
    BY <1>4, <2>1, <2>2, <2>3, <2>4, <2>5, <2>6 DEF CountsOK
<1>8. InputOK(i, 0)
  <2>1. 0 \in 0 .. Len(c.buffer_)
    BY <1>2
  <2> QED
    BY <1>1, <1>2, <2>1, FewerHeld
<1>9. InputOK(o.in, 0) /\ InByteCount(o.in) \in Int /\ InByteCount(i) \in Nat
  BY <1>8, InSkipOf, HeldOf
<1>10. /\ Held(d, o.in) /\ At(d, o.in) = InByteCount(o.in)
       /\ Lag(d, o.in) = d.base + d.total_bytes_read_ + d.overflow_bytes_
                           - InByteCount(o.in)
  BY <1>4, <1>7, <1>9, HoldsNothing
<1>11. Lag(d, o.in) = Lag(c, i) + m - (InByteCount(o.in) - InByteCount(i))
  <2>1. Lag(c, i) = c.base + c.total_bytes_read_ + c.overflow_bytes_
                      - InByteCount(i)
    BY DEF Lag
  <2>2. Lag(d, o.in) = c.base + (c.total_bytes_read_ + m) + c.overflow_bytes_
                         - InByteCount(o.in)
    BY <1>4, <1>10
  <2>3. /\ c.base \in Nat /\ c.total_bytes_read_ \in Nat
        /\ c.overflow_bytes_ \in Nat
    BY <1>2
  <2> QED
    BY <1>9, <2>1, <2>2, <2>3
<1>12. At(c, i) + c.buffer_size_ = InByteCount(i)
  <2>1. At(c, i) + Len(c.buffer_) = InByteCount(i)
    BY HeldOf
  <2> QED
    BY <1>3, <2>1
<1> QED
  BY <1>3, <1>4, <1>5, <1>6, <1>8, <1>10, <1>11, <1>12

\* If a skip was exact, only the end of the input can make it fall behind.
LEMMA BeyondKeeps ==
  ASSUME WriterInv, CursorInv, closed = "gone", UNCHANGED outVars, Idle,
         cis.buffer_size_after_limit_ = 0, NEW m \in Nat,
         cis.total_bytes_read_ + m <= Closest(cis), NEW o \in InSkip(in, m),
         Exact(in) => ExactBy(in, m),
         cis' = Beyond(cis, m), in' = o.in, call' = call, limits' = limits
  PROVE  CursorInv'
<1>1. /\ file \in Bytes /\ Held(cis, in) /\ LimitsOK
      /\ (Exact(in) => CountOK(cis, in)) /\ cis.open /\ call = NoCall
  BY ReaderState DEF Idle
<1>2. /\ Held(cis', o.in) /\ SameReader(cis, cis') /\ cis'.buffer_ = <<>>
      /\ Lag(cis', o.in)
           = Lag(cis, in) + m - (InByteCount(o.in) - InByteCount(in))
      /\ InputOK(in, 0)
  BY <1>1, BeyondOf
<1>3. /\ o.ok \in BOOLEAN /\ InByteCount(o.in) \in Int
      /\ o.in.seeks = in.seeks /\ o.in.short = in.short
      /\ o.ok => InByteCount(o.in) = InByteCount(in) + m
      /\ ExactBy(in, m) =>
           /\ InByteCount(o.in) <= InByteCount(in) + m
           /\ ~o.ok => Dry(o.in)
      /\ Dry(in) => Dry(o.in)
  BY <1>1, <1>2, InSkipOf
<1>4. Lag(cis, in) \in Int /\ InByteCount(in) \in Nat
  BY <1>1, HeldOf
<1>5. ASSUME Exact(in) PROVE CountOK(cis', o.in)
  <2>1. /\ InByteCount(o.in) <= InByteCount(in) + m
        /\ (~o.ok => Dry(o.in))
        /\ (o.ok => InByteCount(o.in) = InByteCount(in) + m)
    BY <1>2, <1>3, <1>5
  <2>2. Lag(cis, in) # 0 => Lag(cis, in) > 0 /\ Dry(in)
    BY <1>1, <1>5 DEF CountOK
  <2>3. Lag(cis', o.in) >= 0
    <3>1. Lag(cis', o.in)
            = Lag(cis, in) + m - (InByteCount(o.in) - InByteCount(in))
      BY <1>2
    <3>2. Lag(cis, in) >= 0
      BY <1>4, <2>2
    <3>3. InByteCount(o.in) - InByteCount(in) <= m
      BY <1>3, <1>4, <2>1
    <3> QED
      BY <1>3, <1>4, <3>1, <3>2, <3>3
  <2>4. o.ok => Lag(cis', o.in) = Lag(cis, in)
    BY <1>2, <1>3, <1>4, <2>1
  <2>5. Lag(cis', o.in) # 0 => Dry(o.in)
    BY <1>3, <2>1, <2>2, <2>4
  <2>6. Lag(cis', o.in) # 0 => Lag(cis', o.in) > 0
    <3>1. Lag(cis', o.in) \in Int
      BY <1>1, <1>2, HeldOf
    <3> QED
      BY <2>3, <3>1
  <2> QED
    BY <1>2, <2>5, <2>6 DEF CountOK
<1>6. /\ Held(cis', in') /\ (Exact(in) => CountOK(cis', in'))
      /\ in'.seeks = in.seeks /\ in'.short = in.short
  BY <1>2, <1>3, <1>5
<1>7. cis'.open /\ LimitsOK' /\ CallOK'
  <2>1. cis'.open /\ cis'.current_limit_ = cis.current_limit_
    BY <1>1, <1>2 DEF SameReader
  <2> QED
    BY <1>1, <2>1, LimitsKept, NoCallOK
<1> QED
  BY <1>6, <1>7, ReaderMoves

\* The ways a call of Skip() goes.
LEMMA SkipCases ==
  ASSUME WriterInv, CursorInv, NEW n \in Sizes, Skip(n)
  PROVE  /\ Idle /\ limits' = limits /\ call' = call /\ cis.buffer_size_ \in Nat
         /\ \/ /\ n < 0 /\ Returns("Skip", n, FALSE, <<>>)
               /\ cis' = cis /\ in' = in
            \/ /\ n \in 0 .. cis.buffer_size_
               /\ Returns("Skip", n, TRUE, <<>>)
               /\ cis' = Advance(cis, n) /\ in' = in
            \/ /\ n > cis.buffer_size_ /\ cis.buffer_size_after_limit_ > 0
               /\ Returns("Skip", n, FALSE, <<>>)
               /\ cis' = Advance(cis, cis.buffer_size_) /\ in' = in
            \/ /\ n > cis.buffer_size_ /\ cis.buffer_size_after_limit_ = 0
               /\ \E m \in Nat : \E o \in InSkip(in, m) :
                    /\ cis' = Beyond(cis, m) /\ in' = o.in
                    /\ cis.total_bytes_read_ + m <= Closest(cis)
                    /\ Exact(in) => ExactBy(in, m)
                    /\ \/ /\ m < n - cis.buffer_size_
                          /\ cis.total_bytes_read_ + m = Closest(cis)
                          /\ Returns("Skip", n, FALSE, <<>>)
                       \/ /\ m = n - cis.buffer_size_
                          /\ Returns("Skip", n, o.ok, <<>>)
<1> DEFINE rest == n - cis.buffer_size_
           room == Closest(cis) - cis.total_bytes_read_
           exhausted == [cis EXCEPT !.buffer_ = <<>>, !.buffer_size_ = 0]
           past == [exhausted EXCEPT !.total_bytes_read_ = @ + rest]
           short == [exhausted EXCEPT !.total_bytes_read_ = Closest(cis)]
<1>n. n \in Int
  BY SizesAssumption
<1>e. ASSUME Exact(in), NEW m \in Int, m <= n PROVE ExactBy(in, m)
  BY <1>n, <1>e, JunkSizeAssumption DEF Exact, ExactBy
<1>1. /\ limits' = limits
      /\ \/ n < 0 /\ AtOnce("Skip", n, FALSE, <<>>, cis) /\ in' = in
         \/ /\ n \in 0 .. cis.buffer_size_
            /\ AtOnce("Skip", n, TRUE, <<>>, Advance(cis, n)) /\ in' = in
         \/ /\ rest > 0 /\ cis.buffer_size_after_limit_ > 0
            /\ AtOnce("Skip", n, FALSE, <<>>, Advance(cis, cis.buffer_size_))
            /\ in' = in
         \/ /\ rest > 0 /\ cis.buffer_size_after_limit_ = 0 /\ room < rest
            /\ \E o \in InSkip(in, room) :
                 AtOnce("Skip", n, FALSE, <<>>, short) /\ in' = o.in
         \/ /\ rest > 0 /\ cis.buffer_size_after_limit_ = 0 /\ room >= rest
            /\ \E o \in InSkip(in, rest) :
                 AtOnce("Skip", n, o.ok, <<>>, past) /\ in' = o.in
  BY Zenon DEF Skip
<1>2. /\ cis \in CodedInputs /\ CountsOK(cis)
  BY ReaderState
<1>3. /\ cis.buffer_size_ \in Nat /\ Closest(cis) \in Nat
      /\ cis.total_bytes_read_ \in Nat
      /\ cis.buffer_size_after_limit_ = 0 =>
           cis.total_bytes_read_ <= Closest(cis)
  BY <1>2, CodedFields, CountsOf
<1>4. /\ rest \in Int /\ room \in Int /\ (rest > 0 <=> n > cis.buffer_size_)
      /\ (cis.buffer_size_after_limit_ = 0 => room \in Nat)
      /\ cis.total_bytes_read_ + room = Closest(cis)
      /\ rest <= n
  BY <1>n, <1>3
<1>5. past = Beyond(cis, rest) /\ short = Beyond(cis, room)
  BY <1>2, <1>4 DEF Beyond, CodedInputs
<1> HIDE DEF rest, room, past, short
<1>6. /\ Idle /\ call' = call
  BY <1>1 DEF AtOnce
<1>7. ASSUME rest > 0, cis.buffer_size_after_limit_ = 0, room < rest,
             NEW o \in InSkip(in, room),
             AtOnce("Skip", n, FALSE, <<>>, short), in' = o.in
      PROVE  \E m \in Nat : \E x \in InSkip(in, m) :
               /\ cis' = Beyond(cis, m) /\ in' = x.in
               /\ cis.total_bytes_read_ + m <= Closest(cis)
               /\ Exact(in) => ExactBy(in, m)
               /\ m < n - cis.buffer_size_
               /\ cis.total_bytes_read_ + m = Closest(cis)
               /\ Returns("Skip", n, FALSE, <<>>)
  <2>1. /\ cis' = Beyond(cis, room) /\ Returns("Skip", n, FALSE, <<>>)
    BY <1>5, <1>7 DEF AtOnce
  <2>2. /\ room \in Nat /\ room < n - cis.buffer_size_
        /\ cis.total_bytes_read_ + room <= Closest(cis)
        /\ cis.total_bytes_read_ + room = Closest(cis)
    BY <1>3, <1>4, <1>7 DEF rest
  <2>3. Exact(in) => ExactBy(in, room)
    <3>1. room <= n
      BY <1>n, <1>4, <1>7
    <3> QED
      BY <1>e, <1>4, <3>1
  <2> QED
    BY <1>7, <2>1, <2>2, <2>3
<1>8. ASSUME rest > 0, cis.buffer_size_after_limit_ = 0, room >= rest,
             NEW o \in InSkip(in, rest),
             AtOnce("Skip", n, o.ok, <<>>, past), in' = o.in
      PROVE  \E m \in Nat : \E x \in InSkip(in, m) :
               /\ cis' = Beyond(cis, m) /\ in' = x.in
               /\ cis.total_bytes_read_ + m <= Closest(cis)
               /\ Exact(in) => ExactBy(in, m)
               /\ m = n - cis.buffer_size_
               /\ Returns("Skip", n, x.ok, <<>>)
  <2>1. /\ cis' = Beyond(cis, rest) /\ Returns("Skip", n, o.ok, <<>>)
    BY <1>5, <1>8 DEF AtOnce
  <2>2. /\ rest \in Nat /\ rest = n - cis.buffer_size_
        /\ cis.total_bytes_read_ + rest <= Closest(cis)
    <3>1. rest \in Nat /\ rest = n - cis.buffer_size_
      BY <1>4, <1>8 DEF rest
    <3> QED
      BY <1>3, <1>4, <1>8, <3>1
  <2>3. Exact(in) => ExactBy(in, rest)
    BY <1>e, <1>4
  <2> QED
    BY <1>8, <2>1, <2>2, <2>3
<1>9. ASSUME rest > 0 PROVE n > cis.buffer_size_
  BY <1>4, <1>9
<1> QED
  BY <1>1, <1>3, <1>6, <1>7, <1>8, <1>9, Zenon DEF AtOnce

LEMMA SkipKeeps ==
  ASSUME WriterInv, CursorInv, closed = "gone", UNCHANGED outVars,
         NEW n \in Sizes, Skip(n)
  PROVE  CursorInv'
<1>1. /\ Idle /\ limits' = limits /\ call' = call /\ cis.buffer_size_ \in Nat
  BY SkipCases
<1>2. cis.open /\ call' = NoCall /\ CallOK'
  BY <1>1, NoCallOK DEF Idle
<1>3. ASSUME cis' = cis, in' = in PROVE CursorInv'
  BY <1>1, <1>2, <1>3, TRUE \in BOOLEAN, StillKeeps
<1>4. ASSUME NEW k \in 0 .. cis.buffer_size_, cis' = Advance(cis, k), in' = in
      PROVE  CursorInv'
  BY <1>1, <1>2, <1>4, AdvanceReturns
<1>5. ASSUME cis.buffer_size_after_limit_ = 0,
             NEW m \in Nat, NEW o \in InSkip(in, m),
             cis' = Beyond(cis, m), in' = o.in,
             cis.total_bytes_read_ + m <= Closest(cis),
             Exact(in) => ExactBy(in, m)
      PROVE  CursorInv'
  BY <1>1, <1>5, BeyondKeeps
<1>6. cis.buffer_size_ \in 0 .. cis.buffer_size_
  BY <1>1
<1>7. \/ cis' = cis /\ in' = in
      \/ \E k \in 0 .. cis.buffer_size_ : cis' = Advance(cis, k) /\ in' = in
      \/ /\ cis.buffer_size_after_limit_ = 0
         /\ \E m \in Nat : \E o \in InSkip(in, m) :
              /\ cis' = Beyond(cis, m) /\ in' = o.in
              /\ cis.total_bytes_read_ + m <= Closest(cis)
              /\ Exact(in) => ExactBy(in, m)
  BY <1>6, SkipCases, Zenon
<1> QED
  BY <1>3, <1>4, <1>5, <1>7
-----------------------------------------------------------------------------
(* Readers come and go *)

\* A step after which there is no reader.
LEMMA NoReaderKeeps ==
  ASSUME WriterInv, CursorInv, closed = "gone", UNCHANGED outVars,
         InputOK(in', 0), in'.seeks = in.seeks, in'.short = in.short,
         cis' = NoStream, limits' = <<>>, call' = NoCall
  PROVE  CursorInv'
<1>1. Held(cis', in')
  BY NoStreamOf, HoldsNothing
<1>2. file' = file /\ closed' = closed
  BY DEF outVars
<1>3. Held(cis, in)'
  BY <1>1, <1>2 DEF Held, InputOK, Loaded, Holds
<1>4. ~cis'.open
  BY NoStreamOf
<1>5. CountOK(cis, in)'
  BY <1>4 DEF CountOK
<1>6. CallOK'
  BY NoCallOK
<1>7. LimitsOK'
  <2>1. <<>> \in Seq(0 .. IntMax) /\ Len(<<>>) = 0
    OBVIOUS
  <2> QED
    BY <2>1 DEF LimitsOK
<1>8. <<in.seeks, in.short>>' \in Descriptors
  BY ReaderState
<1> QED
  BY <1>2, <1>3, <1>4, <1>5, <1>6, <1>7, <1>8 DEF CursorInv, ReaderInv

\* Without a reader, nothing of the input is in anyone's hands.
LEMMA NoReaderOf ==
  ASSUME CursorInv, ~cis.open
  PROVE  /\ cis = NoStream /\ limits = <<>> /\ call = NoCall
         /\ cis.buffer_ = <<>> /\ InputOK(in, 0) /\ At(cis, in) = InByteCount(in)
<1>1. /\ cis = NoStream /\ limits = <<>> /\ call = NoCall /\ Held(cis, in)
  BY DEF CursorInv, ReaderInv
<1>2. cis.buffer_ = <<>> /\ Len(cis.buffer_) = 0
  BY <1>1, NoStreamOf, EmptyBytes
<1>3. InputOK(in, 0)
  BY <1>1, <1>2 DEF Held
<1>4. At(cis, in) = InByteCount(in)
  <2>1. InByteCount(in) \in Int
    BY <1>3, ByteCountOf, 0 \in Nat
  <2> QED
    BY <1>2, <2>1 DEF At
<1> QED
  BY <1>1, <1>2, <1>3, <1>4

LEMMA ConstructKeeps ==
  ASSUME WriterInv, CursorInv, closed = "gone", UNCHANGED outVars, Construct
  PROVE  /\ CursorInv'
         /\ cis'.buffer_ = <<>> /\ Lag(cis', in') = 0 /\ in' = in
<1>1. /\ ~cis.open /\ cis' = NewStream(InByteCount(in))
      /\ UNCHANGED <<in, limits, call>>
  BY DEF Construct
<1>2. /\ limits = <<>> /\ call = NoCall /\ InputOK(in, 0)
  BY <1>1, NoReaderOf
<1>3. InByteCount(in) \in Nat
  BY ReaderState, HeldOf
<1>4. /\ CountsOK(cis') /\ cis'.open = TRUE /\ cis'.base = InByteCount(in)
      /\ cis'.buffer_ = <<>> /\ cis'.total_bytes_read_ = 0
      /\ cis'.overflow_bytes_ = 0
  BY <1>1, <1>3, FreshStream DEF NewStream
<1>5. /\ Held(cis', in)
      /\ Lag(cis', in) = cis'.base + cis'.total_bytes_read_
                           + cis'.overflow_bytes_ - InByteCount(in)
  BY <1>2, <1>4, HoldsNothing
<1>6. Lag(cis', in) = 0
  BY <1>3, <1>4, <1>5
<1>7. in' = in /\ limits' = <<>> /\ call' = NoCall
  BY <1>1, <1>2
<1>8. LimitsOK'
  <2>1. <<>> \in Seq(0 .. IntMax) /\ Len(<<>>) = 0
    OBVIOUS
  <2> QED
    BY <1>7, <2>1 DEF LimitsOK
<1>9. CountOK(cis', in')
  BY <1>6, <1>7 DEF CountOK
<1>10. CallOK'
  BY <1>7, NoCallOK
<1> QED
  BY <1>4, <1>5, <1>6, <1>7, <1>8, <1>9, <1>10, ReaderMoves

\* What Destruct() leaves of the input.
LEMMA DestructOf ==
  ASSUME WriterInv, CursorInv, Destruct
  PROVE  /\ cis' = NoStream /\ limits' = <<>> /\ call' = NoCall /\ cis.open
         /\ InputOK(in', 0) /\ in'.seeks = in.seeks /\ in'.short = in.short
         /\ InByteCount(in') = At(cis, in)
<1>1. /\ cis' = NoStream /\ limits' = <<>> /\ call' = NoCall /\ cis.open
      /\ in' = IF cis.buffer_ # <<>> THEN InBackUp(in, Len(cis.buffer_)) ELSE in
  BY DEF Destruct, AtOnce, Idle
<1>2. /\ InputOK(in, Len(cis.buffer_)) /\ cis \in CodedInputs
      /\ cis.buffer_ \in Bytes /\ Len(cis.buffer_) \in Nat
      /\ InByteCount(in) \in Nat
  BY ReaderState, CodedFields, HeldOf
<1>3. CASE cis.buffer_ = <<>>
  <2>1. in' = in /\ Len(cis.buffer_) = 0
    BY <1>1, <1>3, EmptyBytes
  <2>2. InByteCount(in') = At(cis, in)
    BY <1>2, <2>1 DEF At
  <2> QED
    BY <1>1, <1>2, <2>1, <2>2
<1>4. CASE cis.buffer_ # <<>>
  <2>1. Len(cis.buffer_) \in Nat \ {0}
    BY <1>2, <1>4, NoBytes
  <2>2. in' = InBackUp(in, Len(cis.buffer_))
    BY <1>1, <1>4
  <2>3. /\ InputOK(in', 0) /\ in'.seeks = in.seeks /\ in'.short = in.short
        /\ InByteCount(in') = InByteCount(in) - Len(cis.buffer_)
    BY <1>2, <2>1, <2>2, InBackUpOf
  <2> QED
    BY <1>1, <2>3 DEF At
<1> QED
  BY <1>3, <1>4

LEMMA ExchangeKeeps ==
  ASSUME WriterInv, CursorInv, closed = "gone", UNCHANGED outVars,
         Destruct \/ UnlimitInput \/ (\E n \in InputLimits : LimitInput(n))
  PROVE  CursorInv'
<1>1. CASE Destruct
  BY <1>1, DestructOf, NoReaderKeeps
<1>2. CASE UnlimitInput
  <2>1. ~cis.open /\ in' = Unlimited(in) /\ UNCHANGED <<cis, limits, call>>
    BY <1>2 DEF UnlimitInput
  <2>2. /\ cis = NoStream /\ limits = <<>> /\ call = NoCall /\ InputOK(in, 0)
    BY <2>1, NoReaderOf
  <2>3. /\ InputOK(in', 0) /\ in'.seeks = in.seeks /\ in'.short = in.short
    BY <2>1, <2>2, UnlimitedOf
  <2> QED
    BY <2>1, <2>2, <2>3, NoReaderKeeps
<1>3. CASE \E n \in InputLimits : LimitInput(n)
  <2>1. PICK n \in InputLimits : LimitInput(n)
    BY <1>3
  <2>2. /\ ~cis.open /\ ~in.limited /\ in' = Limited(in, n)
        /\ UNCHANGED <<cis, limits, call>>
    BY <2>1 DEF LimitInput
  <2>3. /\ cis = NoStream /\ limits = <<>> /\ call = NoCall /\ InputOK(in, 0)
    BY <2>2, NoReaderOf
  <2>4. n \in Nat
    BY InputsAssumption
  <2>5. /\ InputOK(in', 0) /\ in'.seeks = in.seeks /\ in'.short = in.short
    BY <2>2, <2>3, <2>4, LimitedOf
  <2> QED
    BY <2>2, <2>3, <2>5, NoReaderKeeps
<1> QED
  BY <1>1, <1>2, <1>3
-----------------------------------------------------------------------------
(* The invariant of the reader *)

LEMMA ReaderStep ==
  ASSUME WriterInv, CursorInv, [Next]_vars
  PROVE  CursorInv'
<1>1. CASE WriterNext /\ UNCHANGED inVars
  <2>1. closed # "gone" /\ Untouched'
    BY <1>1, WritingKeeps
  <2> QED
    BY <2>1, UntouchedOK, PTL
<1>2. CASE UNCHANGED vars
  <2>1. /\ file' = file /\ closed' = closed /\ in' = in /\ cis' = cis
        /\ limits' = limits /\ call' = call
    BY <1>2 DEF vars, inVars, outVars
  <2> QED
    BY <2>1 DEF CursorInv, ReaderInv, Held, InputOK, Loaded, Holds, LimitsOK,
                CallOK, At, Untouched, CountOK, Dry
<1>3. CASE closed = "gone" /\ ReaderNext /\ UNCHANGED outVars
  <2>0. closed = "gone" /\ UNCHANGED outVars
    BY <1>3
  <2>1. CASE Construct
    BY <2>0, <2>1, ConstructKeeps
  <2>2. CASE Destruct \/ UnlimitInput \/ (\E n \in InputLimits : LimitInput(n))
    BY <2>0, <2>2, ExchangeKeeps
  <2>3. CASE PopLimit
    BY <2>0, <2>3, PopLimitKeeps
  <2>4. CASE ReadVarint64 \/ ReadTag
    <3>1. 0 \in Int
      OBVIOUS
    <3>2. CASE ReadVarint64
      BY <2>0, <3>1, <3>2, BeginKeeps DEF ReadVarint64
    <3>3. CASE ReadTag
      BY <2>0, <3>1, <3>3, BeginKeeps DEF ReadTag
    <3> QED
      BY <2>4, <3>2, <3>3
  <2>5. CASE ExpectAtEnd
    BY <2>0, <2>5, ExpectAtEndKeeps
  <2>6. CASE \E n \in LimitSizes : PushLimit(n)
    BY <2>0, <2>6, PushLimitKeeps
  <2>7. CASE \E n \in TotalLimits : SetTotalBytesLimit(n)
    BY <2>0, <2>7, SetTotalKeeps
  <2>8. CASE \E n \in Sizes : ReadRaw(n) \/ ReadString(n)
    <3>1. PICK n \in Sizes : ReadRaw(n) \/ ReadString(n)
      BY <2>8
    <3>2. n \in Int
      BY SizesAssumption
    <3>3. CASE n >= 0 /\ Begin("Read", "copy", n)
      BY <2>0, <3>2, <3>3, BeginKeeps
    <3>4. CASE AtOnce("Read", n, FALSE, <<>>, cis) /\ UNCHANGED <<in, limits>>
      <4>1. /\ cis.open /\ cis' = cis /\ UNCHANGED <<in, limits>> /\ CallOK'
        BY <3>4, NoCallOK DEF AtOnce, Idle
      <4> QED
        BY <2>0, <4>1, TRUE \in BOOLEAN, StillKeeps
    <3> QED
      BY <3>1, <3>3, <3>4 DEF ReadRaw, ReadString
  <2>9. CASE \E n \in Sizes : Skip(n)
    BY <2>0, <2>9, SkipKeeps
  <2>10. CASE \E k \in 0 .. 2 : ExpectTag(k)
    BY <2>0, <2>10, ExpectTagKeeps
  <2>11. CASE CopyOut
    BY <2>0, <2>11, CopyOutKeeps
  <2>12. CASE AtVarint
    BY <2>0, <2>12, AtVarintKeeps
  <2>13. CASE FastVarint
    BY <2>0, <2>13, FastVarintKeeps
  <2>14. CASE SlowVarint
    BY <2>0, <2>14, SlowVarintKeeps
  <2>15. CASE VarintByte
    BY <2>0, <2>15, VarintByteKeeps
  <2> QED
    BY <1>3, <2>1, <2>2, <2>3, <2>4, <2>5, <2>6, <2>7, <2>8, <2>9, <2>10,
       <2>11, <2>12, <2>13, <2>14, <2>15, Zenon DEF ReaderNext
<1> QED
  BY <1>1, <1>2, <1>3 DEF Next

\* However the calls of the readers, the limits and the sizes of blocks and
\* reads are mixed, the buffer of the reader holds the bytes of the file that
\* precede what the input has consumed, its counts add up, no limit is passed,
\* and, if skips are exact, the input lags behind the reader only when nothing
\* more will come (CodedInputStream, CopyingInputStreamAdaptor,
\* LimitingInputStream).
THEOREM ReaderInvariant == Spec => []CursorInv
<1>1. Init => CursorInv
  BY ReaderInit
<1>2. WriterInv /\ CursorInv /\ [Next]_vars => CursorInv'
  BY ReaderStep
<1> QED
  BY <1>1, <1>2, WriterInvariant, PTL DEF Spec

\* No GOOGLE_CHECK of the streams fails, and the counts of the reader add up to
\* the buffer it has (CodedInputStream, coded_stream.cc).
THEOREM ChecksHold == Spec => []TypeOK
<1>1. WriterInv /\ CursorInv => TypeOK
  <2> SUFFICES ASSUME WriterInv, CursorInv PROVE TypeOK
    OBVIOUS
  <2>1. /\ in \in InStreams /\ in.sound /\ in.backup_bytes_ <= Len(in.buffer_)
        /\ CountsOK(cis) /\ cis \in CodedInputs
    BY ReaderState DEF InputOK
  <2>2. in.backup_bytes_ \in 0 .. Len(in.buffer_)
    BY <2>1, InFields
  <2>3. /\ cis.buffer_size_ \in 0 .. Len(cis.buffer_)
        /\ cis.total_bytes_read_ \in 0 .. IntMax
    <3>1. /\ cis.buffer_size_ \in Nat /\ Len(cis.buffer_) \in Nat
          /\ cis.buffer_size_ <= Len(cis.buffer_)
          /\ cis.total_bytes_read_ \in Nat
      BY <2>1, CodedFields, CountsOf
    <3>2. cis.total_bytes_read_ <= IntMax
      BY <2>1 DEF CountsOK
    <3> QED
      BY <3>1, <3>2, IntMaxAssumption
  <2>4. Len(cis.buffer_) = cis.buffer_size_ + cis.buffer_size_after_limit_
                             + cis.overflow_bytes_
    BY <2>1 DEF CountsOK
  <2>5. /\ out.sound /\ out.position_ \in Nat /\ Len(out.buffer_) <= BlockSize
        /\ cos.buffer_size_ \in 0 .. BlockSize
    <3>1. /\ out \in OutStreams /\ out.sound /\ cos \in CodedStreams
          /\ Len(out.buffer_) <= BlockSize
          /\ cos.buffer_size_ <= Len(out.buffer_)
      BY DEF WriterInv, WriterTypes, WriterBuffer
    <3>2. /\ out.position_ \in Nat /\ Len(out.buffer_) \in Nat
          /\ cos.buffer_size_ \in Nat
      BY <3>1 DEF OutStreams, CodedStreams, Bytes
    <3> QED
      BY <3>1, <3>2, BlockSizeAssumption
  <2> QED
    BY <2>1, <2>2, <2>3, <2>4, <2>5 DEF TypeOK
<1> QED
  BY <1>1, WriterInvariant, ReaderInvariant, PTL
-----------------------------------------------------------------------------
(* The readers implement ByteCursor, if no skip goes further than it was      *)
(* asked to: if every file can be positioned, or read() is never short and    *)
(* nobody skips more than sizeof(junk) bytes at a time.                       *)

SkipsExactly ==
  \A d \in Descriptors : d[1] \/ (~d[2] /\ \A n \in Sizes : n <= JunkSize)

BoundAt(c, i) ==
  IF i.limited THEN Least(c.base + Closest(c), EndOf(i)) ELSE c.base + Closest(c)

StopAt(c, i) == Least(BoundAt(c, i), Len(file))

LostAt(c, i) == i.failed_ \/ Lag(c, i) # 0

LEMMA ExactHere ==
  ASSUME CursorInv, SkipsExactly
  PROVE  Exact(in) /\ CountOK(cis, in)
<1>1. <<in.seeks, in.short>> \in Descriptors
  BY DEF CursorInv, ReaderInv
<1>2. Exact(in)
  BY <1>1 DEF SkipsExactly, Exact
<1> QED
  BY <1>2 DEF CursorInv

\* Where a reader stands: never beyond a limit, and what it may read is before
\* every end.
LEMMA Standing ==
  ASSUME file \in Bytes, NEW c, NEW i, Held(c, i), CountOK(c, i), c.open
  PROVE  /\ At(c, i) \in Nat /\ StopAt(c, i) \in Int /\ BoundAt(c, i) \in Int
         /\ StopAt(c, i) <= BoundAt(c, i) /\ StopAt(c, i) <= Len(file)
         /\ i.limited => StopAt(c, i) <= EndOf(i)
         /\ BoundAt(c, i) <= c.base + Closest(c)
         /\ Lag(c, i) \in Int /\ Lag(c, i) >= 0
         /\ At(c, i) = c.base + Position(c) - Lag(c, i)
         /\ At(c, i) <= BoundAt(c, i)
         /\ At(c, i) <= Len(file) => At(c, i) <= StopAt(c, i)
         /\ c.buffer_size_ > 0 =>
              ~LostAt(c, i) /\ At(c, i) + c.buffer_size_ <= StopAt(c, i)
         /\ c.buffer_size_after_limit_ > 0 =>
              /\ ~LostAt(c, i)
              /\ At(c, i) + c.buffer_size_ = StopAt(c, i)
<1> DEFINE at == At(c, i)
           lag == Lag(c, i)
           size == c.buffer_size_
           after == c.buffer_size_after_limit_
           over == c.overflow_bytes_
           read == c.total_bytes_read_
           base == c.base
           len == Len(c.buffer_)
           position == Position(c)
           closest == Closest(c)
           count == InByteCount(i)
           end == EndOf(i)
           whole == Len(file)
<1>1. /\ CountsOK(c) /\ c \in CodedInputs /\ InputOK(i, len)
  BY DEF Held, CountsOK
<1>2. /\ size \in Nat /\ after \in Nat /\ over \in Nat /\ read \in Nat
      /\ base \in Nat /\ len \in Nat /\ closest \in Nat /\ whole \in Nat
  BY <1>1, CodedFields DEF Bytes
<1>3. /\ position \in Nat /\ position <= closest /\ position + size <= closest
      /\ (after > 0 => position + size = closest)
  BY <1>1, CountsOf
<1>4. len = size + after + over
  BY <1>1 DEF CountsOK
<1>5. /\ at \in Nat /\ count \in Nat /\ lag \in Int /\ at + len = count
      /\ (len > 0 => count <= whole) /\ (i.failed_ => c.buffer_ = <<>>)
  BY HeldOf
<1>6. end \in Int /\ end >= count
  <2>1. /\ end \in Int /\ i.limit_ \in Int
        /\ end = count + (IF i.limit_ < 0 THEN 0 ELSE i.limit_)
    BY <1>1, <1>2, ByteCountOf, InFields DEF InputOK
  <2> QED
    BY <1>5, <2>1
<1>7. position = read - (size + after)
  BY DEF Position
<1>8. lag = base + read + over - count
  BY DEF Lag
<1>9. (lag # 0 => lag > 0 /\ c.buffer_ = <<>>)
  BY DEF CountOK
<1>10. (len > 0 => lag = 0 /\ ~i.failed_)
  BY <1>5, <1>9, EmptyBytes
<1>s. /\ StopAt(c, i) = Least(BoundAt(c, i), whole)
      /\ BoundAt(c, i) = IF i.limited THEN Least(base + closest, end)
                         ELSE base + closest
      /\ (LostAt(c, i) <=> i.failed_ \/ lag # 0)
  BY DEF StopAt, BoundAt, LostAt
<1> DEFINE bound == BoundAt(c, i)
           stop == StopAt(c, i)
<1>t. /\ stop = Least(bound, whole)
      /\ bound = (IF i.limited THEN Least(base + closest, end)
                  ELSE base + closest)
  BY <1>s
<1> HIDE DEF at, lag, size, after, over, read, base, len, position, closest,
             count, end, whole, bound, stop
<1>11. at = base + position - lag
  BY <1>2, <1>3, <1>4, <1>5, <1>7, <1>8
<1>12. lag >= 0
  BY <1>5, <1>9
<1>13. /\ bound \in Int /\ bound <= base + closest
       /\ (i.limited => bound <= end)
       /\ \A x \in Int : x <= base + closest /\ x <= end => x <= bound
  BY <1>2, <1>6, <1>t DEF Least
<1>14. /\ stop \in Int /\ stop <= bound /\ stop <= whole
       /\ \A x \in Int : x <= bound /\ x <= whole => x <= stop
  <2>1. bound \in Int /\ whole \in Nat
    BY <1>2, <1>13
  <2>2. stop = Least(bound, whole)
    BY <1>t
  <2> QED
    BY <2>1, <2>2 DEF Least
<1>15. at <= bound
  <2>1. at <= base + closest
    BY <1>2, <1>3, <1>5, <1>11, <1>12
  <2>2. at <= end
    BY <1>2, <1>5, <1>6
  <2> QED
    BY <1>5, <1>13, <2>1, <2>2
<1>16. at <= whole => at <= stop
  BY <1>5, <1>14, <1>15
<1>17. ASSUME len > 0
       PROVE  /\ lag = 0 /\ ~i.failed_ /\ at + size <= stop
              /\ at + size = base + position + size
  <2>1. lag = 0 /\ ~i.failed_ /\ count <= whole
    BY <1>5, <1>10, <1>17
  <2>2. at = base + position
    BY <1>2, <1>3, <1>11, <2>1
  <2>3. at + size \in Int /\ at + size = base + position + size
    BY <1>2, <1>3, <2>2
  <2>4. at + size <= base + closest
    BY <1>2, <1>3, <2>2
  <2>5. at + size <= count
    BY <1>2, <1>4, <1>5
  <2>6. at + size <= end
    BY <1>2, <1>5, <1>6, <2>5
  <2>7. at + size <= whole
    BY <1>2, <1>5, <2>1, <2>5
  <2>8. at + size <= stop
    BY <1>13, <1>14, <2>3, <2>4, <2>6, <2>7
  <2> QED
    BY <2>1, <2>3, <2>8
<1>18. ASSUME after > 0 PROVE at + size = stop
  <2>1. len > 0
    BY <1>2, <1>4, <1>18
  <2>2. at + size <= stop /\ at + size = base + position + size
    BY <1>17, <2>1
  <2>3. base + position + size = base + closest
    BY <1>2, <1>3, <1>18
  <2>4. stop <= base + closest
    BY <1>2, <1>13, <1>14
  <2> QED
    BY <1>2, <1>5, <1>14, <2>2, <2>3, <2>4
<1>19. (size > 0 => len > 0) /\ (after > 0 => len > 0)
  BY <1>2, <1>4
<1>20. i.limited => stop <= end
  BY <1>6, <1>13, <1>14
<1>21. /\ (size > 0 => ~LostAt(c, i) /\ at + size <= stop)
       /\ (after > 0 => ~LostAt(c, i) /\ at + size = stop)
  BY <1>s, <1>17, <1>18, <1>19
<1> QED
  BY <1>5, <1>11, <1>12, <1>13, <1>14, <1>15, <1>16, <1>20, <1>21
     DEF at, lag, size, after, base, position, closest, end, whole, bound, stop

\* A reader consumes no more than it counts, if its skips are exact: the rest of
\* the input belongs to the readers that come after it.
LEMMA CountedOK ==
  ASSUME SkipsExactly, WriterInv, CursorInv
  PROVE  NothingSkippedUnasked
<1> SUFFICES ASSUME SkipsExactly, cis.open
             PROVE  InByteCount(in) <= cis.base + cis.total_bytes_read_
                                         + cis.overflow_bytes_
  BY DEF NothingSkippedUnasked
<1>1. /\ file \in Bytes /\ Held(cis, in) /\ CountOK(cis, in)
      /\ cis \in CodedInputs
  BY ReaderState, ExactHere
<1>2. Lag(cis, in) \in Int /\ Lag(cis, in) >= 0 /\ InByteCount(in) \in Nat
  BY <1>1, Standing, HeldOf
<1>3. /\ cis.base \in Nat /\ cis.total_bytes_read_ \in Nat
      /\ cis.overflow_bytes_ \in Nat
  BY <1>1, CodedFields
<1> QED
  BY <1>2, <1>3 DEF Lag
-----------------------------------------------------------------------------
(* The state of ByteCursor *)

\* Neither a limit nor the end of the input moves.
SameEnds ==
  /\ cis.open /\ cis'.open
  /\ cis'.base = cis.base /\ cis'.current_limit_ = cis.current_limit_
  /\ cis'.total_bytes_limit_ = cis.total_bytes_limit_ /\ limits' = limits
  /\ SameInput(in, in')

LEMMA EndsKept ==
  ASSUME SameEnds
  PROVE  /\ endBar' = endBar /\ limitsBar' = limitsBar
         /\ cis'.base + cis'.total_bytes_limit_
              = cis.base + cis.total_bytes_limit_
<1>1. endBar' = endBar
  BY DEF SameEnds, SameInput, EndOf, endBar
<1>2. limitsBar' = limitsBar
  BY DEF SameEnds, limitsBar
<1> QED
  BY <1>1, <1>2 DEF SameEnds

\* The limits l a reader was given and its current one, the innermost last, in
\* the input.
LimitsAt(base, l, current) ==
  [i \in 1 .. Len(l) + 1 |-> base + Append(l, current)[i]]

Nested(t, base, l, current) ==
  /\ Len(l) \in Nat /\ t # <<>> /\ t \in Seq(Nat) /\ Len(t) = Len(l) + 1
  /\ \A j \in 1 .. Len(l) : t[j] = base + l[j]
  /\ t[Len(l) + 1] = base + current

LEMMA LimitsAtOf ==
  ASSUME NEW base \in Nat, NEW l \in Seq(Nat), NEW current \in Nat
  PROVE  Nested(LimitsAt(base, l, current), base, l, current)
<1> DEFINE s == Append(l, current)
           n == Len(l)
           t == LimitsAt(base, l, current)
<1>1. n \in Nat
  OBVIOUS
<1>3. /\ s \in Seq(Nat) /\ Len(s) = n + 1 /\ s[n + 1] = current
      /\ \A j \in 1 .. n : s[j] = l[j]
  BY AppendProperties
<1>4. t = [i \in 1 .. n + 1 |-> base + s[i]]
  BY DEF LimitsAt
<1> HIDE DEF s, t, n
<1>5. \A j \in 1 .. n + 1 : s[j] \in Nat
  BY <1>1, <1>3, ElementOfSeq
<1>6. t \in Seq(Nat) /\ Len(t) = n + 1
  BY <1>1, <1>4, <1>5
<1>7. \A j \in 1 .. n + 1 : t[j] = base + s[j]
  BY <1>4
<1>8. t # <<>>
  BY <1>1, <1>6
<1>9. n + 1 \in 1 .. n + 1 /\ \A j \in 1 .. n : j \in 1 .. n + 1
  BY <1>1
<1> QED
  BY <1>1, <1>3, <1>6, <1>7, <1>8, <1>9 DEF n, t, Nested

LEMMA PushedLimits ==
  ASSUME NEW base \in Nat, NEW l \in Seq(Nat), NEW current \in Nat,
         NEW inner \in Nat
  PROVE  LimitsAt(base, Append(l, current), inner)
           = Append(LimitsAt(base, l, current), base + inner)
<1> DEFINE n == Len(l)
           m == Append(l, current)
           s == LimitsAt(base, l, current)
           t == LimitsAt(base, m, inner)
           u == Append(s, base + inner)
<1>1. n \in Nat /\ base + inner \in Nat
  OBVIOUS
<1>2. /\ m \in Seq(Nat) /\ Len(m) = n + 1 /\ m[n + 1] = current
      /\ \A j \in 1 .. n : m[j] = l[j]
  BY AppendProperties
<1>3. /\ s \in Seq(Nat) /\ Len(s) = n + 1 /\ s[n + 1] = base + current
      /\ \A j \in 1 .. n : s[j] = base + l[j]
  <2>1. Nested(s, base, l, current)
    BY LimitsAtOf
  <2> HIDE DEF s
  <2> QED
    BY <2>1 DEF Nested
<1> HIDE DEF m, s, n
<1>4. /\ t \in Seq(Nat) /\ Len(t) = Len(m) + 1
      /\ t[Len(m) + 1] = base + inner
      /\ \A j \in 1 .. Len(m) : t[j] = base + m[j]
  <2>1. Nested(t, base, m, inner)
    BY <1>2, LimitsAtOf
  <2> HIDE DEF t
  <2> QED
    BY <2>1 DEF Nested
<1>5. /\ u \in Seq(Nat) /\ Len(u) = Len(s) + 1
      /\ u[Len(s) + 1] = base + inner
      /\ \A j \in 1 .. Len(s) : u[j] = s[j]
  <2> DEFINE x == base + inner
  <2>1. x \in Nat
    BY <1>1
  <2> HIDE DEF x
  <2>2. /\ Append(s, x) \in Seq(Nat) /\ Len(Append(s, x)) = Len(s) + 1
        /\ Append(s, x)[Len(s) + 1] = x
        /\ \A j \in 1 .. Len(s) : Append(s, x)[j] = s[j]
    BY <1>3, <2>1, AppendProperties
  <2> QED
    BY <2>2 DEF x
<1> HIDE DEF t, u
<1>6. ASSUME NEW j \in 1 .. Len(t) PROVE t[j] = u[j]
  <2>1. j \in 1 .. n \/ j = n + 1 \/ j = n + 2
    BY <1>1, <1>2, <1>4
  <2>2. CASE j \in 1 .. n
    <3>1. j \in 1 .. n + 1
      BY <1>1, <2>2
    <3>2. t[j] = base + l[j]
      BY <1>2, <1>4, <2>2, <3>1
    <3>3. u[j] = base + l[j]
      BY <1>3, <1>5, <2>2, <3>1
    <3> QED
      BY <3>2, <3>3
  <2>3. CASE j = n + 1
    <3>1. n + 1 \in 1 .. n + 1
      BY <1>1
    <3> QED
      BY <1>2, <1>3, <1>4, <1>5, <2>3, <3>1
  <2>4. CASE j = n + 2
    <3>1. n + 1 + 1 = n + 2
      BY <1>1
    <3> QED
      BY <1>2, <1>3, <1>4, <1>5, <2>4, <3>1
  <2> QED
    BY <2>1, <2>2, <2>3, <2>4
<1>7. Len(t) = Len(u)
  BY <1>2, <1>3, <1>4, <1>5
<1>8. t = u
  BY <1>4, <1>5, <1>6, <1>7, SeqEqual
<1> QED
  BY <1>8 DEF t, u, m, s

LEMMA PoppedLimits ==
  ASSUME NEW base \in Nat, NEW l \in Seq(Nat), Len(l) > 0,
         NEW current \in Nat
  PROVE  LimitsAt(base, Front(l, Len(l) - 1), l[Len(l)])
           = SubSeq(LimitsAt(base, l, current), 1,
                    Len(LimitsAt(base, l, current)) - 1)
<1> DEFINE n == Len(l)
           m == Front(l, n - 1)
           s == LimitsAt(base, l, current)
           t == LimitsAt(base, m, l[n])
           u == Front(s, n)
<1>1. n \in Nat /\ n \in 1 .. n /\ n - 1 \in Nat /\ n - 1 \in 0 .. n
  OBVIOUS
<1>2. l[n] \in Nat
  BY <1>1, ElementOfSeq
<1>3. /\ m \in Seq(Nat) /\ Len(m) = n - 1
      /\ \A j \in 1 .. n - 1 : m[j] = l[j]
  BY <1>1, FrontOf
<1>4. /\ s \in Seq(Nat) /\ Len(s) = n + 1
      /\ \A j \in 1 .. n : s[j] = base + l[j]
  <2>1. Nested(s, base, l, current)
    BY LimitsAtOf
  <2> HIDE DEF s
  <2> QED
    BY <2>1 DEF Nested
<1> HIDE DEF m, s, n
<1>5. /\ t \in Seq(Nat) /\ Len(t) = Len(m) + 1
      /\ t[Len(m) + 1] = base + l[n]
      /\ \A j \in 1 .. Len(m) : t[j] = base + m[j]
  <2>1. Nested(t, base, m, l[n])
    BY <1>2, <1>3, LimitsAtOf
  <2> HIDE DEF t
  <2> QED
    BY <2>1 DEF Nested
<1>6. n \in 0 .. Len(s)
  BY <1>1, <1>4
<1>7. /\ u \in Seq(Nat) /\ Len(u) = n /\ \A j \in 1 .. n : u[j] = s[j]
  BY <1>4, <1>6, FrontOf
<1> HIDE DEF t, u
<1>8. Len(t) = n /\ n - 1 + 1 = n
  BY <1>1, <1>3, <1>5
<1>9. ASSUME NEW j \in 1 .. Len(t) PROVE t[j] = u[j]
  <2>1. j \in 1 .. n /\ (j \in 1 .. n - 1 \/ j = n)
    BY <1>1, <1>8
  <2>2. CASE j \in 1 .. n - 1
    <3>1. t[j] = base + l[j]
      BY <1>3, <1>5, <2>2
    <3>2. u[j] = base + l[j]
      BY <1>4, <1>7, <2>1
    <3> QED
      BY <3>1, <3>2
  <2>3. CASE j = n
    BY <1>3, <1>4, <1>5, <1>7, <1>8, <2>1, <2>3
  <2> QED
    BY <2>1, <2>2, <2>3
<1>10. t = u
  BY <1>5, <1>7, <1>8, <1>9, SeqEqual
<1>11. u = SubSeq(s, 1, Len(s) - 1)
  <2>1. Len(s) - 1 = n
    BY <1>1, <1>4
  <2> QED
    BY <2>1 DEF u, Front
<1> QED
  BY <1>10, <1>11 DEF t, s, m, n

\* The limits of a reader, as ByteCursor sees them.
LEMMA LimitsBarOf ==
  ASSUME LimitsOK, cis \in CodedInputs, cis.open
  PROVE  /\ limits \in Seq(Nat) /\ Len(limits) \in Nat
         /\ limitsBar = LimitsAt(cis.base, limits, cis.current_limit_)
         /\ limitsBar # <<>> /\ limitsBar \in Seq(Nat)
         /\ Len(limitsBar) = Len(limits) + 1
         /\ limitsBar[Len(limits) + 1] = cis.base + cis.current_limit_
<1>1. cis.base \in Nat /\ cis.current_limit_ \in Nat
  BY CodedFields
<1>2. limits \in Seq(Nat) /\ Len(limits) \in Nat
  BY IntMaxAssumption DEF LimitsOK
<1>3. limitsBar = LimitsAt(cis.base, limits, cis.current_limit_)
  BY DEF limitsBar, LimitsAt
<1>4. Nested(LimitsAt(cis.base, limits, cis.current_limit_),
             cis.base, limits, cis.current_limit_)
  BY <1>1, <1>2, LimitsAtOf
<1> QED
  BY <1>2, <1>3, <1>4 DEF Nested

\* While there is a reader, ByteCursor sees its ends and its position.
LEMMA Bars ==
  ASSUME WriterInv, CursorInv, cis.open
  PROVE  /\ Cursors!Bound = BoundAt(cis, in) /\ Cursors!Stop = StopAt(cis, in)
         /\ cursorBar = IF call = NoCall THEN At(cis, in) ELSE call.from
         /\ lostBar = LostAt(cis, in)
<1>1. /\ file \in Bytes /\ Held(cis, in) /\ LimitsOK
      /\ cis \in CodedInputs /\ InputOK(in, Len(cis.buffer_))
  BY ReaderState
<1>2. /\ cis.base \in Nat /\ cis.current_limit_ \in Nat
      /\ cis.total_bytes_limit_ \in Nat /\ Len(cis.buffer_) \in Nat
      /\ Closest(cis) \in Nat
  BY <1>1, CodedFields
<1>3. /\ limitsBar # <<>> /\ Len(limits) \in Nat
      /\ Len(limitsBar) = Len(limits) + 1
      /\ limitsBar[Len(limits) + 1] = cis.base + cis.current_limit_
  BY <1>1, LimitsBarOf
<1>4. limitsBar[Len(limitsBar)] = cis.base + cis.current_limit_
  BY <1>3
<1>5. Cursors!Nearest = cis.base + Closest(cis)
  <2>1. Cursors!Nearest
          = Cursors!Least(cis.base + cis.total_bytes_limit_,
                          cis.base + cis.current_limit_)
    BY <1>3, <1>4 DEF Cursors!Nearest
  <2> QED
    BY <1>2, <2>1 DEF Cursors!Least, Closest, Least
<1>6. /\ InByteCount(in) \in Nat
      /\ EndOf(in) \in Int /\ EndOf(in) >= InByteCount(in)
  <2>1. /\ EndOf(in) \in Int /\ in.limit_ \in Int
        /\ EndOf(in) = InByteCount(in) + (IF in.limit_ < 0 THEN 0 ELSE in.limit_)
    BY <1>1, <1>2, ByteCountOf, InFields DEF InputOK
  <2>2. InByteCount(in) \in Nat
    BY <1>1, HeldOf
  <2> QED
    BY <2>1, <2>2
<1>7. endBar = (IF in.limited THEN EndOf(in) ELSE -1)
  BY DEF endBar, EndOf
<1>8. Cursors!Bound = BoundAt(cis, in)
  <2>1. CASE in.limited
    <3>1. endBar = EndOf(in) /\ endBar # -1
      BY <1>6, <1>7, <2>1
    <3> QED
      BY <1>5, <2>1, <3>1
         DEF Cursors!Bound, Cursors!NoEnd, Cursors!Least, BoundAt, Least
  <2>2. CASE ~in.limited
    BY <1>5, <1>7, <2>2 DEF Cursors!Bound, Cursors!NoEnd, BoundAt
  <2> QED
    BY <2>1, <2>2
<1>9. Cursors!Stop = StopAt(cis, in)
  BY <1>8 DEF Cursors!Stop, Cursors!Least, StopAt, Least
<1>10. cursorBar = IF call = NoCall THEN At(cis, in) ELSE call.from
  BY DEF cursorBar, Cursor, At
<1>11. lostBar <=> LostAt(cis, in)
  <2>1. /\ cis.base \in Nat /\ cis.total_bytes_read_ \in Nat
        /\ cis.overflow_bytes_ \in Nat
    BY <1>1, CodedFields
  <2>2. Lag(cis, in) # 0 <=> cis.base + cis.total_bytes_read_
                                + cis.overflow_bytes_ # InByteCount(in)
    <3>1. InByteCount(in) \in Int
      BY <1>6
    <3> QED
      BY <2>1, <3>1 DEF Lag
  <2> QED
    BY <2>2 DEF lostBar, LostAt
<1>12. lostBar = LostAt(cis, in)
  <2>1. lostBar \in BOOLEAN /\ LostAt(cis, in) \in BOOLEAN
    BY DEF lostBar, LostAt
  <2> QED
    BY <1>11, <2>1
<1> QED
  BY <1>8, <1>9, <1>10, <1>12

\* The same of the next state.
LEMMA BarsNext ==
  ASSUME file' \in Bytes, Held(cis', in'), cis'.open
  PROVE  /\ cursorBar' = IF call' = NoCall THEN At(cis', in') ELSE call'.from
         /\ lostBar' = LostAt(cis', in')
<1>1. /\ cursorBar' = IF call' = NoCall THEN At(cis', in') ELSE call'.from
  BY DEF cursorBar, Cursor, At
<1>2. cis' \in CodedInputs
  BY DEF Held, CountsOK
<1>3. /\ cis'.base \in Nat /\ cis'.total_bytes_read_ \in Nat
      /\ cis'.overflow_bytes_ \in Nat
  BY <1>2, CodedFields
<1>4. Lag(cis', in') # 0 <=> cis'.base + cis'.total_bytes_read_
                                + cis'.overflow_bytes_ # InByteCount(in')
  <2>1. InByteCount(in') \in Int
    <3>1. InputOK(in', Len(cis'.buffer_)) /\ Len(cis'.buffer_) \in Nat
      BY <1>2, CodedFields DEF Held
    <3> QED
      BY <3>1, ByteCountOf
  <2> QED
    BY <1>3, <2>1 DEF Lag
<1>5. lostBar' <=> LostAt(cis', in')
  BY <1>4 DEF lostBar, LostAt
<1>6. lostBar' = LostAt(cis', in')
  <2>1. lostBar' \in BOOLEAN /\ LostAt(cis', in') \in BOOLEAN
    BY DEF lostBar, LostAt
  <2> QED
    BY <1>5, <2>1
<1> QED
  BY <1>1, <1>6
-----------------------------------------------------------------------------
(* The calls as steps of ByteCursor *)

\* The result of a call has the fields it is asked for.
RetOK == {"op", "n", "ok", "bytes"} \subseteq DOMAIN ret

LEMMA ReturnsOf ==
  ASSUME RetOK, NEW op, NEW n, NEW ok, NEW bytes, Returns(op, n, ok, bytes)
  PROVE  /\ RetOK' /\ ret'.op = op /\ ret'.n = n /\ ret'.ok = ok
         /\ ret'.bytes = bytes
BY DEF RetOK, Returns

\* A step of the call under way that ByteCursor does not see.
StillCalling ==
  /\ SameEnds /\ ret' = ret /\ file' = file
  /\ cursorBar' = cursorBar /\ lostBar' = lostBar

LEMMA StillCallingSteps == ASSUME StillCalling PROVE UNCHANGED Cursors!vars
BY EndsKept DEF StillCalling, Cursors!vars

\* The reader advances in its buffer, and nothing else moves.
LEMMA AdvanceBars ==
  ASSUME WriterInv, CursorInv, UNCHANGED outVars, cis.open,
         NEW m \in 0 .. cis.buffer_size_, cis' = Advance(cis, m),
         in' = in, limits' = limits
  PROVE  /\ SameEnds /\ lostBar' = lostBar /\ file' = file
         /\ cursorBar' = IF call' = NoCall THEN At(cis, in) + m
                         ELSE call'.from
<1>1. file \in Bytes /\ Held(cis, in) /\ file' = file
  BY ReaderState DEF outVars
<1>2. /\ Held(cis', in') /\ SameReader(cis, cis')
      /\ At(cis', in') = At(cis, in) + m /\ Lag(cis', in') = Lag(cis, in)
  BY <1>1, AdvanceHeld
<1>3. cis'.open
  BY <1>2 DEF SameReader
<1>4. SameEnds
  BY <1>2 DEF SameEnds, SameReader, SameInput
<1>5. LostAt(cis', in') = LostAt(cis, in)
  BY <1>2 DEF LostAt
<1> QED
  BY <1>1, <1>2, <1>3, <1>4, <1>5, Bars, BarsNext

\* Bytes that are those of the file from a on are the ones that are next there.
LEMMA NextBytes ==
  ASSUME NEW f \in Bytes, NEW b \in Bytes, NEW a \in Nat,
         a + Len(b) <= Len(f), \A j \in 1 .. Len(b) : b[j] = f[a + j]
  PROVE  b = SubSeq(f, a + 1, a + Len(b))
<1> DEFINE n == Len(b)
           s == SubSeq(f, a + 1, a + n)
<1>1. f \in Seq(Nat) /\ b \in Seq(Nat) /\ n \in Nat
  BY DEF Bytes
<1>2. a + n <= Len(f) /\ \A j \in 1 .. n : b[j] = f[a + j]
  OBVIOUS
<1> HIDE DEF n
<1>a. s = Block(f, a, n)
  BY DEF Block
<1> HIDE DEF s
<1>3. /\ s \in Seq(Nat) /\ Len(s) = n
      /\ \A j \in 1 .. n : s[j] = f[a + j]
  BY <1>1, <1>2, <1>a, BlockBytes DEF Bytes
<1>4. Len(b) = Len(s) /\ \A j \in 1 .. Len(b) : b[j] = s[j]
  BY <1>2, <1>3 DEF n
<1>5. b = s
  BY <1>1, <1>3, <1>4, SeqEqual, Zenon
<1> QED
  BY <1>5 DEF s, n

\* What a call has got when it ends are the bytes that were next.
LEMMA GotNext ==
  ASSUME WriterInv, CursorInv, UNCHANGED outVars, call.stage # "none",
         NEW m \in 0 .. cis.buffer_size_, cis' = Advance(cis, m),
         in' = in, limits' = limits, call' = NoCall,
         NEW g \in Bytes, GotBy(g, m)
  PROVE  /\ cursorBar = call.from /\ g = Cursors!Upcoming(Len(g))
         /\ cursorBar' = cursorBar + Len(g)
         /\ Len(g) > 0 => cursorBar' <= Len(file)
<1>1. file \in Bytes
  BY ReaderState
<1>2. cis.open /\ call # NoCall /\ call.from \in Nat
  BY CallOf
<1>3. cursorBar = call.from /\ cursorBar' = At(cis, in) + m
  BY <1>2, AdvanceBars, Bars
<1>4. /\ \A j \in 1 .. Len(g) : g[j] = file[call.from + j]
      /\ Len(g) > 0 => call.from + Len(g) <= Len(file)
      /\ At(cis, in) + m = call.from + Len(g)
  BY GotMore
<1>5. Len(g) \in Nat
  BY DEF Bytes
<1>6. CASE Len(g) = 0
  <2>1. g = <<>>
    BY <1>6, NoBytes
  <2>2. SubSeq(file, call.from + 1, call.from + 0) = <<>>
    <3>1. /\ call.from + 1 \in Int /\ call.from + 0 \in Int
          /\ call.from + 0 < call.from + 1
      BY <1>2
    <3> QED
      BY <3>1, SubSeqEmpty
  <2> QED
    BY <1>3, <1>4, <1>6, <2>1, <2>2 DEF Cursors!Upcoming
<1>7. CASE Len(g) > 0
  <2>1. call.from + Len(g) <= Len(file)
    BY <1>4, <1>7
  <2>2. g = SubSeq(file, call.from + 1, call.from + Len(g))
    BY <1>1, <1>2, <1>4, <2>1, NextBytes
  <2> QED
    BY <1>3, <1>4, <2>1, <2>2 DEF Cursors!Upcoming
<1> QED
  BY <1>5, <1>6, <1>7

\* A call that returns the bytes from where it began to the cursor delivers
\* them.
LEMMA Delivers ==
  ASSUME WriterInv, CursorInv, SkipsExactly, UNCHANGED outVars, RetOK,
         call.stage # "none",
         NEW m \in 0 .. cis.buffer_size_, cis' = Advance(cis, m),
         in' = in, limits' = limits, call' = NoCall,
         NEW g \in Bytes, GotBy(g, m), m = 0 => Len(g) = 0,
         Returns(call.op, call.n, TRUE, g),
         call.op = "Read" => Len(g) = call.n,
         call.op # "Read" => Cursors!IsVarint(g)
  PROVE  Cursors!Call /\ UNCHANGED file
<1>1. /\ file \in Bytes /\ Held(cis, in) /\ CountOK(cis, in)
      /\ cis \in CodedInputs
  BY ReaderState, ExactHere
<1>2. /\ cis.open /\ call # NoCall /\ call.op \in {"Read", "ReadVarint"}
      /\ call.from \in Nat
  BY CallOf
<1>3. /\ SameEnds /\ lostBar' = lostBar /\ file' = file
      /\ cursorBar' = At(cis, in) + m
  BY <1>2, AdvanceBars
<1>4. /\ Cursors!Stop = StopAt(cis, in) /\ cursorBar = call.from
      /\ lostBar = LostAt(cis, in)
  BY <1>2, Bars
<1>5. /\ \A j \in 1 .. Len(g) : g[j] = file[call.from + j]
      /\ Len(g) > 0 => call.from + Len(g) <= Len(file)
      /\ At(cis, in) + m = call.from + Len(g)
  BY GotMore
<1>6. Len(g) \in Nat /\ cis.buffer_size_ \in Nat /\ Len(file) \in Nat
  BY <1>1, CodedFields DEF Bytes
<1>7. g = Cursors!Upcoming(Len(g)) /\ cursorBar' = cursorBar + Len(g)
  BY GotNext
<1>8. Len(g) = 0 \/ (~lostBar /\ cursorBar + Len(g) <= Cursors!Stop)
  <2> SUFFICES ASSUME Len(g) # 0
               PROVE  ~lostBar /\ cursorBar + Len(g) <= Cursors!Stop
    OBVIOUS
  <2>1. m > 0 /\ cis.buffer_size_ > 0 /\ m <= cis.buffer_size_ /\ m \in Nat
    BY <1>6
  <2>2. /\ ~LostAt(cis, in) /\ StopAt(cis, in) \in Int /\ At(cis, in) \in Nat
        /\ At(cis, in) + cis.buffer_size_ <= StopAt(cis, in)
    BY <1>1, <1>2, <2>1, Standing
  <2>3. At(cis, in) + m <= StopAt(cis, in)
    BY <1>6, <2>1, <2>2
  <2> QED
    BY <1>4, <1>5, <2>2, <2>3
<1>9. /\ ret'.op = call.op /\ ret'.n = call.n /\ ret'.ok = TRUE
      /\ ret'.bytes = g
  BY ReturnsOf
<1>10. /\ ret'.op \in Cursors!Reading
       /\ IF ret'.op = "Read" THEN Len(g) = ret'.n
          ELSE Cursors!IsVarint(ret'.bytes)
  BY <1>2, <1>9 DEF Cursors!Reading
<1>11. Cursors!Deliver
  BY <1>3, <1>7, <1>8, <1>9, <1>10, EndsKept DEF Cursors!Deliver
<1> QED
  BY <1>3, <1>11 DEF Cursors!Call

\* The next h bytes all continue a varint, and no more may belong to it.
Endless(h) ==
  /\ \A j \in 1 .. h : file[call.from + j] \in High
  /\ h >= MaxVarint \/ call.from + h >= StopAt(cis, in)

LEMMA NoVarintIn ==
  ASSUME NEW f \in Bytes, NEW a \in Nat, NEW stop \in Int, stop <= Len(f),
         NEW h \in Nat, \A j \in 1 .. h : f[a + j] \in High,
         h >= MaxVarint \/ a + h >= stop,
         NEW n \in Nat, n > 0, a + n <= stop
  PROVE  ~Cursors!IsVarint(SubSeq(f, a + 1, a + n))
<1> DEFINE b == SubSeq(f, a + 1, a + n)
<1>1. a + n <= Len(f)
  <2>1. Len(f) \in Nat
    BY DEF Bytes
  <2> QED
    BY <2>1
<1>2. b = Block(f, a, n)
  BY DEF Block
<1> HIDE DEF b
<1>3. Len(b) = n /\ \A j \in 1 .. n : b[j] = f[a + j]
  BY <1>1, <1>2, BlockBytes
<1>4. SUFFICES ASSUME Cursors!IsVarint(b) PROVE FALSE
  BY DEF b
<1>5. n \in 1 .. MaxVarint /\ b[n] \notin High
  <2>1. n \in 1 .. MaxVarint /\ \A i \in 1 .. n : b[i] \in High <=> i < n
    BY <1>3, <1>4, Zenon DEF Cursors!IsVarint
  <2>2. n \in 1 .. n /\ ~(n < n)
    OBVIOUS
  <2> QED
    BY <2>1, <2>2, Zenon
<1>6. n \in 1 .. h
  <2>1. n <= MaxVarint /\ MaxVarint \in Nat
    BY <1>5, MaxVarintAssumption
  <2> QED
    BY <2>1
<1>7. b[n] = f[a + n]
  BY <1>3
<1> QED
  BY <1>5, <1>6, <1>7

LEMMA NoVarintNext ==
  ASSUME file \in Bytes, call.from \in Nat, StopAt(cis, in) \in Int,
         StopAt(cis, in) <= Len(file), NEW h \in Nat, Endless(h),
         cursorBar = call.from,
         NEW n \in 1 .. StopAt(cis, in) - call.from
  PROVE  ~Cursors!IsVarint(Cursors!Upcoming(n))
<1>1. n \in Nat /\ n > 0 /\ call.from + n <= StopAt(cis, in)
  OBVIOUS
<1>2. ~Cursors!IsVarint(SubSeq(file, call.from + 1, call.from + n))
  BY <1>1, NoVarintIn DEF Endless
<1> QED
  BY <1>2 DEF Cursors!Upcoming

\* A call of ReadVarint that fails, having consumed m bytes.
LEMMA FailsVarint ==
  ASSUME WriterInv, CursorInv, SkipsExactly, UNCHANGED outVars, RetOK,
         call.stage # "none", call.op = "ReadVarint", SameEnds,
         NEW n, Returns("ReadVarint", n, FALSE, <<>>),
         NEW m \in Nat, cursorBar' = call.from + m,
         m = 0 \/ call.from + m <= StopAt(cis, in),
         lostBar' \/ (\E h \in Nat : Endless(h)),
         ~lostBar' => ~lostBar
  PROVE  Cursors!Call /\ UNCHANGED file
<1>1. /\ file \in Bytes /\ Held(cis, in) /\ CountOK(cis, in)
      /\ cis \in CodedInputs
  BY ReaderState, ExactHere
<1>2. /\ cis.open /\ call # NoCall /\ call.from \in Nat
  BY CallOf
<1>3. /\ Cursors!Stop = StopAt(cis, in) /\ cursorBar = call.from
      /\ lostBar = LostAt(cis, in)
  BY <1>2, Bars
<1>4. StopAt(cis, in) \in Int /\ StopAt(cis, in) <= Len(file)
  BY <1>1, <1>2, Standing
<1>5. /\ ret'.op = "ReadVarint" /\ ret'.ok = FALSE
  BY ReturnsOf
<1>6. /\ cursorBar' >= cursorBar
      /\ cursorBar' <= Cursors!Stop \/ cursorBar' = cursorBar
  BY <1>2, <1>3, <1>4
<1>7. lostBar' \/ ~\E k \in 1 .. Cursors!Stop - cursorBar :
                     Cursors!IsVarint(Cursors!Upcoming(k))
  BY <1>1, <1>2, <1>3, <1>4, NoVarintNext
<1>8. lostBar' \/ lostBar' = lostBar
  <2>1. lostBar' \in BOOLEAN /\ lostBar \in BOOLEAN
    BY DEF lostBar
  <2> QED
    BY <2>1
<1>9. Cursors!FailVarint
  BY <1>5, <1>6, <1>7, <1>8, EndsKept DEF Cursors!FailVarint
<1> QED
  BY <1>9 DEF Cursors!Call, outVars

\* A call of ReadRaw or ReadString that fails where the next block should be,
\* having consumed the m bytes that were left.
LEMMA FailsRead ==
  ASSUME WriterInv, CursorInv, SkipsExactly, UNCHANGED outVars, RetOK,
         call.stage # "none", call.op = "Read", SameEnds,
         Returns("Read", call.n, FALSE, <<>>),
         NEW m \in Nat, cursorBar' = call.from + m, m < call.n,
         m = 0 \/ call.from + m <= StopAt(cis, in),
         lostBar' \/ call.from + m >= StopAt(cis, in),
         ~lostBar' => ~lostBar
  PROVE  Cursors!Call /\ UNCHANGED file
<1>1. /\ file \in Bytes /\ Held(cis, in) /\ CountOK(cis, in)
      /\ cis \in CodedInputs
  BY ReaderState, ExactHere
<1>2. /\ cis.open /\ call # NoCall /\ call.from \in Nat /\ call.n \in Int
  BY CallOf
<1>3. /\ Cursors!Stop = StopAt(cis, in) /\ cursorBar = call.from
      /\ lostBar = LostAt(cis, in)
  BY <1>2, Bars
<1>4. StopAt(cis, in) \in Int /\ StopAt(cis, in) <= Len(file)
  BY <1>1, <1>2, Standing
<1>5. /\ ret'.op = "Read" /\ ret'.ok = FALSE /\ ret'.n = call.n
  BY ReturnsOf
<1>6. cursorBar' >= cursorBar
  BY <1>2, <1>3
<1>7. ~lostBar' =>
        /\ ret'.n > Cursors!Stop - cursorBar
        /\ cursorBar' = IF cursorBar < Cursors!Stop THEN Cursors!Stop
                        ELSE cursorBar
  BY <1>2, <1>3, <1>4, <1>5
<1>8. lostBar' \/ lostBar' = lostBar
  <2>1. lostBar' \in BOOLEAN /\ lostBar \in BOOLEAN
    BY DEF lostBar
  <2> QED
    BY <2>1
<1>9. Cursors!Fail
  BY <1>5, <1>6, <1>7, <1>8, EndsKept DEF Cursors!Fail
<1> QED
  BY <1>9 DEF Cursors!Call, outVars

\* A failed Refresh() stands where the reader has to stop.
LEMMA RefreshStops ==
  ASSUME WriterInv, CursorInv, CountOK(cis, in), cis.open,
         NEW o \in Refresh(cis), ~o.ok, ~o.in.failed_
  PROVE  At(cis, in) + cis.buffer_size_ >= StopAt(cis, in)
<1>1. /\ file \in Bytes /\ Held(cis, in)
      /\ cis \in CodedInputs /\ InputOK(in, Len(cis.buffer_))
  BY ReaderState
<1>2. /\ At(cis, in) \in Nat /\ StopAt(cis, in) \in Int
      /\ StopAt(cis, in) <= Len(file)
      /\ in.limited => StopAt(cis, in) <= EndOf(in)
      /\ cis.buffer_size_after_limit_ > 0 =>
           At(cis, in) + cis.buffer_size_ = StopAt(cis, in)
  BY <1>1, Standing
<1>3. /\ cis.buffer_size_ \in Nat /\ cis.buffer_size_after_limit_ \in Nat
      /\ Len(file) \in Nat /\ Len(cis.buffer_) \in Nat
  BY <1>1, CodedFields DEF Bytes
<1>4. EndOf(in) \in Int
  BY <1>1, <1>3, ByteCountOf
<1>5. /\ Held(o.c, o.in) /\ At(o.c, o.in) = At(cis, in) + cis.buffer_size_
      /\ \/ cis.buffer_size_after_limit_ > 0
         \/ InByteCount(o.in) >= Len(file)
         \/ in.limited /\ InByteCount(o.in) >= EndOf(in)
      /\ cis.buffer_size_after_limit_ = 0 => o.c.buffer_ = <<>>
  BY <1>1, RefreshOf
<1>6. CASE cis.buffer_size_after_limit_ > 0
  BY <1>2, <1>3, <1>6
<1>7. CASE cis.buffer_size_after_limit_ = 0
  <2>1. /\ InByteCount(o.in) \in Nat
        /\ At(o.c, o.in) + Len(o.c.buffer_) = InByteCount(o.in)
        /\ Len(o.c.buffer_) = 0 /\ At(o.c, o.in) \in Nat
    BY <1>1, <1>5, <1>7, HeldOf, EmptyBytes
  <2>2. InByteCount(o.in) = At(cis, in) + cis.buffer_size_
    BY <1>5, <2>1
  <2>3. \/ InByteCount(o.in) >= Len(file)
        \/ in.limited /\ InByteCount(o.in) >= EndOf(in)
    BY <1>5, <1>7
  <2> HIDE DEF EndOf
  <2>4. InByteCount(o.in) >= StopAt(cis, in)
    <3>1. CASE InByteCount(o.in) >= Len(file)
      BY <1>2, <1>3, <2>1, <3>1
    <3>2. CASE in.limited /\ InByteCount(o.in) >= EndOf(in)
      BY <1>2, <1>4, <2>1, <3>2
    <3> QED
      BY <2>3, <3>1, <3>2
  <2> QED
    BY <2>2, <2>4
<1> QED
  BY <1>3, <1>6, <1>7

\* What Refresh() does to the state of ByteCursor.
LEMMA RefreshBars ==
  ASSUME WriterInv, CursorInv, UNCHANGED outVars, cis.open,
         NEW o \in Refresh(cis), in' = o.in, NEW b \in BOOLEAN,
         cis' = o.c \/ cis' = [o.c EXCEPT !.legitimate_message_end_ = b],
         limits' = limits
  PROVE  /\ SameEnds /\ file' = file
         /\ ~lostBar' => ~lostBar
         /\ o.ok => lostBar' = lostBar
         /\ cursorBar' = IF call' = NoCall
                         THEN At(cis, in) + cis.buffer_size_ ELSE call'.from
         /\ ~o.ok => \/ lostBar'
                     \/ At(cis, in) + cis.buffer_size_ >= StopAt(cis, in)
<1>1. /\ file \in Bytes /\ Held(cis, in) /\ file' = file
  BY ReaderState DEF outVars
<1>2. /\ o.ok \in BOOLEAN /\ (in.failed_ => o.in.failed_)
      /\ Held(o.c, o.in) /\ SameReader(cis, o.c) /\ SameInput(in, o.in)
      /\ At(o.c, o.in) = At(cis, in) + cis.buffer_size_
      /\ Lag(o.c, o.in) = Lag(cis, in)
      /\ o.ok => ~o.in.failed_
  BY <1>1, RefreshOf
<1>3. /\ Held(cis', in') /\ At(cis', in') = At(o.c, o.in)
      /\ Lag(cis', in') = Lag(o.c, o.in)
      /\ cis'.open = o.c.open /\ cis'.base = o.c.base
      /\ cis'.current_limit_ = o.c.current_limit_
      /\ cis'.total_bytes_limit_ = o.c.total_bytes_limit_
  <2>1. CASE cis' = o.c
    BY <1>2, <2>1
  <2>2. CASE cis' = [o.c EXCEPT !.legitimate_message_end_ = b]
    BY <1>1, <1>2, <2>2, EndNoted
  <2> QED
    BY <2>1, <2>2
<1>4. SameEnds /\ cis'.open
  BY <1>2, <1>3 DEF SameEnds, SameReader
<1>5. /\ cursorBar' = IF call' = NoCall THEN At(cis', in') ELSE call'.from
      /\ lostBar' = LostAt(cis', in')
  BY <1>1, <1>3, <1>4, BarsNext
<1>6. lostBar = LostAt(cis, in)
  BY Bars
<1>7. /\ LostAt(cis', in') <=> o.in.failed_ \/ Lag(cis, in) # 0
      /\ LostAt(cis, in) <=> in.failed_ \/ Lag(cis, in) # 0
  BY <1>2, <1>3 DEF LostAt
<1>8. /\ ~lostBar' => ~lostBar
      /\ o.ok => (lostBar' <=> lostBar)
      /\ ~lostBar' => ~o.in.failed_ /\ Lag(cis, in) = 0
  BY <1>2, <1>5, <1>6, <1>7
<1>9. o.ok => lostBar' = lostBar
  <2>1. lostBar' \in BOOLEAN /\ lostBar \in BOOLEAN
    BY DEF lostBar
  <2> QED
    BY <1>8, <2>1
<1>10. ~o.ok => \/ lostBar'
                \/ At(cis, in) + cis.buffer_size_ >= StopAt(cis, in)
  BY <1>8, RefreshStops DEF CountOK
<1> QED
  BY <1>1, <1>2, <1>3, <1>4, <1>5, <1>8, <1>9, <1>10

CallsCursor == [Cursors!Call /\ UNCHANGED file]_(Cursors!vars)

LEMMA CopyOutSteps ==
  ASSUME WriterInv, CursorInv, SkipsExactly, UNCHANGED outVars, RetOK, CopyOut
  PROVE  CallsCursor
<1> DEFINE missing == call.n - Len(call.got)
           size == cis.buffer_size_
<1>1. /\ call.stage = "copy" /\ limits' = limits
      /\ \/ /\ missing <= size
            /\ Return(TRUE, call.got \o Front(cis.buffer_, missing),
                      Advance(cis, missing))
            /\ in' = in
         \/ /\ missing > size
            /\ \E o \in Refresh(cis) :
                 /\ in' = o.in
                 /\ \/ /\ o.ok
                       /\ call' = [call EXCEPT !.got = @ \o Readable(cis)]
                       /\ cis' = o.c
                       /\ ret' = ret
                    \/ ~o.ok /\ Return(FALSE, <<>>, o.c)
  BY Zenon DEF CopyOut
<1>2. /\ cis.open /\ call.n \in Int /\ Len(call.got) \in Nat
      /\ call.got \in Bytes /\ Len(call.got) <= call.n
      /\ call.n > 0 => Len(call.got) < call.n
      /\ call.stage # "none" /\ call.op = "Read" /\ call.from \in Nat
      /\ At(cis, in) = call.from + Len(call.got) /\ call # NoCall
      /\ Len(call.got) > 0 => At(cis, in) <= Len(file)
  <2>1. /\ call.stage # "none" /\ call.stage = "copy"
    BY <1>1
  <2> QED
    BY <2>1, CallOf
<1>3. /\ file \in Bytes /\ Held(cis, in) /\ CountOK(cis, in)
      /\ cis \in CodedInputs
  BY ReaderState, ExactHere
<1>4. /\ Readable(cis) \in Bytes /\ Len(Readable(cis)) = size
      /\ size \in Nat /\ cis.buffer_ \in Bytes /\ size <= Len(cis.buffer_)
      /\ size > 0 => At(cis, in) + size <= Len(file)
  BY <1>3, ReadableOf
<1>5. missing \in Nat /\ Len(call.got) + missing = call.n
  BY <1>2
<1> HIDE DEF missing
<1>c. ~(missing <= size /\ missing > size)
  BY <1>4, <1>5
<1>6. CASE missing <= size
  <2> DEFINE f == Front(cis.buffer_, missing)
             g == call.got \o f
  <2>1. cis' = Advance(cis, missing) /\ call' = NoCall /\ in' = in
        /\ Returns(call.op, call.n, TRUE, g)
    BY <1>1, <1>c, <1>6, Zenon DEF Return
  <2>2. missing \in 0 .. size /\ missing \in 0 .. Len(cis.buffer_)
    <3>1. Len(cis.buffer_) \in Nat
      BY <1>3, CodedFields
    <3> QED
      BY <1>4, <1>5, <1>6, <3>1
  <2>3. /\ f \in Bytes /\ Len(f) = missing
        /\ \A j \in 1 .. missing : f[j] = cis.buffer_[j]
    BY <1>4, <2>2, FrontOf DEF Bytes
  <2> HIDE DEF f
  <2>4. g \in Bytes /\ Joined(g, call.got, f)
    BY <1>2, <2>3, JoinedBytes
  <2> HIDE DEF g
  <2>5. GotBy(g, missing)
    BY <2>3, <2>4 DEF Joined, GotBy
  <2>6. Len(g) = call.n
    BY <1>5, <2>5 DEF GotBy
  <2>7. missing = 0 => Len(g) = 0
    BY <1>2, <1>5, <2>6
  <2>8. call.op = "Read" /\ missing \in 0 .. cis.buffer_size_
    BY <1>2, <2>2
  <2>9. Cursors!Call /\ UNCHANGED file
    BY <1>1, <1>2, <2>1, <2>4, <2>5, <2>6, <2>7, <2>8, Delivers
  <2> QED
    BY <2>9 DEF CallsCursor
<1>7. CASE missing > size
  <2>1. PICK o \in Refresh(cis) :
          /\ in' = o.in
          /\ \/ /\ o.ok
                /\ call' = [call EXCEPT !.got = @ \o Readable(cis)]
                /\ cis' = o.c
                /\ ret' = ret
             \/ ~o.ok /\ Return(FALSE, <<>>, o.c)
    BY <1>1, <1>c, <1>7, Zenon
  <2>2. cis' = o.c
    BY <2>1 DEF Return
  <2>3. /\ SameEnds /\ file' = file
        /\ ~lostBar' => ~lostBar
        /\ o.ok => lostBar' = lostBar
        /\ cursorBar' = IF call' = NoCall THEN At(cis, in) + size ELSE call'.from
        /\ ~o.ok => lostBar' \/ At(cis, in) + size >= StopAt(cis, in)
    BY <1>1, <1>2, <2>1, <2>2, TRUE \in BOOLEAN, RefreshBars
  <2>4. CASE o.ok
    <3>1. call' = [call EXCEPT !.got = @ \o Readable(cis)] /\ ret' = ret
      BY <2>1, <2>4
    <3>2. call'.from = call.from /\ call' # NoCall
      <4>1. call \in [op : {"Read", "ReadVarint"},
                      stage : {"copy", "fallback", "varint", "bytes"},
                      n : Int, got : Bytes, from : Nat]
        BY <1>2, CallOf
      <4>2. call'.from = call.from /\ call'.op = call.op
        BY <3>1, <4>1
      <4> QED
        BY <1>2, <4>2 DEF NoCall
    <3>3. cursorBar' = cursorBar
      <4>1. cursorBar = call.from
        BY <1>2, Bars
      <4> QED
        BY <2>3, <3>2, <4>1
    <3>4. StillCalling
      BY <2>3, <2>4, <3>1, <3>3 DEF StillCalling
    <3> QED
      BY <3>4, StillCallingSteps DEF CallsCursor
  <2>5. CASE ~o.ok
    <3> DEFINE m == Len(call.got) + size
    <3>1. call' = NoCall /\ Returns("Read", call.n, FALSE, <<>>)
      BY <1>2, <2>1, <2>5 DEF Return
    <3>2. m \in Nat /\ call.from + m = At(cis, in) + size
      <4>1. /\ Len(call.got) \in Nat /\ call.from \in Nat /\ size \in Nat
            /\ At(cis, in) = call.from + Len(call.got)
        BY <1>2, <1>4
      <4> HIDE DEF size
      <4> QED
        BY <4>1
    <3>3. m < call.n
      <4>1. /\ Len(call.got) \in Nat /\ size \in Nat /\ missing \in Nat
            /\ Len(call.got) + missing = call.n /\ missing > size
        BY <1>2, <1>4, <1>5, <1>7
      <4> HIDE DEF size
      <4> QED
        BY <4>1
    <3>4. cursorBar' = call.from + m
      BY <2>3, <3>1, <3>2
    <3>5. lostBar' \/ call.from + m >= StopAt(cis, in)
      BY <2>3, <2>5, <3>2
    <3>6. m = 0 \/ call.from + m <= StopAt(cis, in)
      <4>1. CASE size > 0
        <5>1. At(cis, in) + size <= StopAt(cis, in)
          BY <1>2, <1>3, <4>1, Standing
        <5> QED
          BY <3>2, <5>1
      <4>2. CASE size = 0
        <5>1. Len(call.got) > 0 => At(cis, in) <= StopAt(cis, in)
          BY <1>2, <1>3, Standing
        <5>2. m = Len(call.got) /\ call.from + m = At(cis, in)
          BY <1>2, <4>2
        <5> QED
          BY <1>2, <5>1, <5>2
      <4> QED
        BY <1>4, <4>1, <4>2
    <3> HIDE DEF m
    <3>7. Cursors!Call /\ UNCHANGED file
      BY <1>2, <2>3, <3>1, <3>2, <3>3, <3>4, <3>5, <3>6, FailsRead
    <3> QED
      BY <3>7 DEF CallsCursor
  <2> QED
    BY <2>4, <2>5
<1> QED
  BY <1>4, <1>5, <1>6, <1>7

\* What a varint has so far are bytes that continue it.
LEMMA VarintCall ==
  ASSUME WriterInv, CursorInv, SkipsExactly,
         call.stage \in {"fallback", "varint", "bytes"}
  PROVE  /\ cis.open /\ call # NoCall /\ call.stage # "none"
         /\ call.op = "ReadVarint" /\ call.from \in Nat
         /\ call.got \in Bytes /\ Len(call.got) \in Nat
         /\ At(cis, in) = call.from + Len(call.got)
         /\ \A j \in 1 .. Len(call.got) : file[call.from + j] \in High
         /\ Len(call.got) > 0 => At(cis, in) <= StopAt(cis, in)
         /\ file \in Bytes /\ Held(cis, in) /\ CountOK(cis, in)
         /\ cis \in CodedInputs /\ cis.buffer_size_ \in Nat
         /\ StopAt(cis, in) \in Int /\ StopAt(cis, in) <= Len(file)
         /\ cursorBar = call.from
<1>1. call.stage # "none" /\ call.stage # "copy"
  OBVIOUS
<1>2. /\ cis.open /\ call # NoCall /\ call.op \in {"Read", "ReadVarint"}
      /\ call.op = "Read" <=> call.stage = "copy"
      /\ call.from \in Nat /\ call.got \in Bytes /\ Len(call.got) \in Nat
      /\ At(cis, in) = call.from + Len(call.got)
      /\ Len(call.got) > 0 => At(cis, in) <= Len(file)
      /\ \A j \in 1 .. Len(call.got) : call.got[j] = file[call.from + j]
      /\ call.stage \in {"fallback", "varint"} => call.got = <<>>
      /\ call.stage = "bytes" =>
           \A j \in 1 .. Len(call.got) : call.got[j] \in High
  BY <1>1, CallOf
<1>3. call.op = "ReadVarint"
  BY <1>1, <1>2
<1>4. \A j \in 1 .. Len(call.got) : file[call.from + j] \in High
  <2>1. CASE call.stage = "bytes"
    BY <1>2, <2>1
  <2>2. CASE call.stage \in {"fallback", "varint"}
    <3>1. Len(call.got) = 0
      BY <1>2, <2>2, EmptyBytes
    <3> QED
      BY <3>1
  <2> QED
    BY <2>1, <2>2
<1>5. /\ file \in Bytes /\ Held(cis, in) /\ CountOK(cis, in)
      /\ cis \in CodedInputs
  BY ReaderState, ExactHere
<1>6. cis.buffer_size_ \in Nat
  BY <1>5, CodedFields
<1>7. /\ StopAt(cis, in) \in Int /\ StopAt(cis, in) <= Len(file)
      /\ At(cis, in) <= Len(file) => At(cis, in) <= StopAt(cis, in)
  BY <1>2, <1>5, Standing
<1>8. cursorBar = call.from
  BY <1>2, Bars
<1> QED
  BY <1>1, <1>2, <1>3, <1>4, <1>5, <1>6, <1>7, <1>8

\* A varint has to be read on, and nothing is left to read.
LEMMA RefreshEndsVarint ==
  ASSUME WriterInv, CursorInv, SkipsExactly, UNCHANGED outVars, RetOK,
         call.stage \in {"fallback", "bytes"}, cis.buffer_size_ = 0,
         NEW o \in Refresh(cis), ~o.ok, in' = o.in, NEW b \in BOOLEAN,
         cis' = o.c \/ cis' = [o.c EXCEPT !.legitimate_message_end_ = b],
         limits' = limits, call' = NoCall,
         Returns(call.op, call.n, FALSE, <<>>)
  PROVE  CallsCursor
<1> DEFINE m == Len(call.got)
<1>1. /\ cis.open /\ call.stage # "none" /\ call.op = "ReadVarint"
      /\ call.from \in Nat /\ m \in Nat /\ At(cis, in) = call.from + m
      /\ \A j \in 1 .. m : file[call.from + j] \in High
      /\ m > 0 => At(cis, in) <= StopAt(cis, in)
  BY VarintCall
<1> HIDE DEF m
<1>2. /\ SameEnds /\ file' = file /\ (~lostBar' => ~lostBar)
      /\ cursorBar' = At(cis, in) + cis.buffer_size_
      /\ lostBar' \/ At(cis, in) + cis.buffer_size_ >= StopAt(cis, in)
  BY <1>1, RefreshBars
<1>3. /\ cursorBar' = call.from + m
      /\ lostBar' \/ call.from + m >= StopAt(cis, in)
      /\ m = 0 \/ call.from + m <= StopAt(cis, in)
  BY <1>1, <1>2
<1>4. lostBar' \/ (\E h \in Nat : Endless(h))
  BY <1>1, <1>3 DEF Endless
<1>5. Returns("ReadVarint", call.n, FALSE, <<>>)
  BY <1>1
<1>6. Cursors!Call /\ UNCHANGED file
  BY <1>1, <1>2, <1>3, <1>4, <1>5, FailsVarint
<1> QED
  BY <1>6 DEF CallsCursor

\* A varint has to be read on, and there is another block.
LEMMA RefillsVarint ==
  ASSUME WriterInv, CursorInv, SkipsExactly, UNCHANGED outVars,
         call.stage \in {"fallback", "bytes"},
         NEW o \in Refresh(cis), o.ok, in' = o.in, cis' = o.c,
         limits' = limits, call' = call, ret' = ret
  PROVE  CallsCursor
<1>1. /\ cis.open /\ call # NoCall /\ cursorBar = call.from
  BY VarintCall
<1>2. /\ SameEnds /\ file' = file /\ lostBar' = lostBar
      /\ cursorBar' = call.from
  BY <1>1, TRUE \in BOOLEAN, RefreshBars
<1>3. StillCalling
  BY <1>1, <1>2 DEF StillCalling
<1> QED
  BY <1>3, StillCallingSteps DEF CallsCursor

\* Only the call under way moves on.
LEMMA CallMoves ==
  ASSUME WriterInv, CursorInv, SkipsExactly, UNCHANGED outVars,
         call.stage \in {"fallback", "varint", "bytes"},
         NEW x, call' = [call EXCEPT !.stage = x],
         UNCHANGED <<in, cis, limits, ret>>
  PROVE  CallsCursor
<1>1. /\ cis.open /\ call # NoCall /\ call.stage # "none"
      /\ call.op = "ReadVarint" /\ cursorBar = call.from
  BY VarintCall
<1>2. call \in [op : {"Read", "ReadVarint"},
                stage : {"copy", "fallback", "varint", "bytes"},
                n : Int, got : Bytes, from : Nat]
  BY <1>1, CallOf
<1>3. call'.from = call.from /\ call'.op = call.op
  BY <1>2
<1>4. call' # NoCall
  BY <1>1, <1>3 DEF NoCall
<1>5. cursorBar' = cursorBar
  BY <1>1, <1>3, <1>4 DEF cursorBar
<1>6. SameEnds /\ file' = file /\ lostBar' = lostBar
  BY <1>1 DEF SameEnds, SameInput, lostBar, outVars
<1>7. StillCalling
  BY <1>5, <1>6 DEF StillCalling
<1> QED
  BY <1>7, StillCallingSteps DEF CallsCursor

LEMMA AtVarintSteps ==
  ASSUME WriterInv, CursorInv, SkipsExactly, UNCHANGED outVars, RetOK, AtVarint
  PROVE  CallsCursor
<1>1. /\ call.stage = "fallback" /\ limits' = limits
      /\ call.stage \in {"fallback", "varint", "bytes"}
  BY DEF AtVarint
<1>2. CASE /\ call' = [call EXCEPT !.stage = "varint"]
           /\ UNCHANGED <<in, cis, ret>>
  BY <1>1, <1>2, CallMoves
<1>3. CASE /\ cis.buffer_size_ = 0
           /\ cis.buffer_size_after_limit_ > 0
           /\ Return(FALSE, <<>>, [cis EXCEPT !.legitimate_message_end_ = TRUE])
           /\ UNCHANGED in
  <2> DEFINE m == Len(call.got)
  <2>1. /\ cis.open /\ call.stage # "none" /\ call.op = "ReadVarint"
        /\ call.from \in Nat /\ m \in Nat /\ At(cis, in) = call.from + m
        /\ \A j \in 1 .. m : file[call.from + j] \in High
        /\ m > 0 => At(cis, in) <= StopAt(cis, in)
        /\ file \in Bytes /\ Held(cis, in) /\ CountOK(cis, in)
    BY <1>1, VarintCall
  <2>2. /\ cis' = [cis EXCEPT !.legitimate_message_end_ = TRUE]
        /\ call' = NoCall /\ in' = in
        /\ Returns("ReadVarint", call.n, FALSE, <<>>)
    BY <1>3, <2>1 DEF Return
  <2> HIDE DEF m
  <2>3. /\ Held(cis', in) /\ At(cis', in) = At(cis, in)
        /\ Lag(cis', in) = Lag(cis, in) /\ cis'.open = cis.open
        /\ cis'.base = cis.base /\ cis'.current_limit_ = cis.current_limit_
        /\ cis'.total_bytes_limit_ = cis.total_bytes_limit_
    <3>1. PICK b \in BOOLEAN : cis' = [cis EXCEPT !.legitimate_message_end_ = b]
      BY <2>2
    <3>2. Held(cis, in)
      BY <2>1
    <3> QED
      BY <3>1, <3>2, EndNoted
  <2>4. SameEnds /\ file' = file
    BY <1>1, <2>1, <2>2, <2>3 DEF SameEnds, SameInput, outVars
  <2>5. /\ Held(cis', in') /\ cis'.open /\ file' \in Bytes
    BY <2>1, <2>2, <2>3, <2>4
  <2>6. cursorBar' = call.from + m /\ lostBar' = lostBar
    <3>1. cursorBar' = At(cis', in') /\ lostBar' = LostAt(cis', in')
      BY <2>2, <2>5, BarsNext
    <3>2. LostAt(cis', in') = LostAt(cis, in)
      BY <2>2, <2>3 DEF LostAt
    <3> QED
      BY <2>1, <2>2, <2>3, <3>1, <3>2, Bars
  <2>7. /\ At(cis, in) \in Nat /\ StopAt(cis, in) \in Int
        /\ At(cis, in) + cis.buffer_size_ = StopAt(cis, in)
    BY <1>3, <2>1, Standing
  <2>8. call.from + m >= StopAt(cis, in)
        /\ (m = 0 \/ call.from + m <= StopAt(cis, in))
    BY <1>3, <2>1, <2>7
  <2>9. \E h \in Nat : Endless(h)
    BY <2>1, <2>8 DEF Endless
  <2>10. Cursors!Call /\ UNCHANGED file
    BY <2>1, <2>2, <2>4, <2>6, <2>8, <2>9, FailsVarint
  <2> QED
    BY <2>10 DEF CallsCursor
<1>4. CASE /\ cis.buffer_size_ = 0
           /\ \E o \in Refresh(cis) :
                /\ in' = o.in
                /\ \/ o.ok /\ cis' = o.c /\ UNCHANGED <<call, ret>>
                   \/ /\ ~o.ok
                      /\ Return(FALSE, <<>>,
                           [o.c EXCEPT !.legitimate_message_end_ =
                              \/ Position(o.c) < o.c.total_bytes_limit_
                              \/ o.c.current_limit_ = o.c.total_bytes_limit_])
  <2>1. PICK o \in Refresh(cis) :
                /\ in' = o.in
                /\ \/ o.ok /\ cis' = o.c /\ UNCHANGED <<call, ret>>
                   \/ /\ ~o.ok
                      /\ Return(FALSE, <<>>,
                           [o.c EXCEPT !.legitimate_message_end_ =
                              \/ Position(o.c) < o.c.total_bytes_limit_
                              \/ o.c.current_limit_ = o.c.total_bytes_limit_])
    BY <1>4
  <2>2. CASE o.ok /\ cis' = o.c /\ UNCHANGED <<call, ret>>
    BY <1>1, <2>1, <2>2, RefillsVarint
  <2>3. CASE /\ ~o.ok
             /\ Return(FALSE, <<>>,
                  [o.c EXCEPT !.legitimate_message_end_ =
                     \/ Position(o.c) < o.c.total_bytes_limit_
                     \/ o.c.current_limit_ = o.c.total_bytes_limit_])
    <3> DEFINE b == \/ Position(o.c) < o.c.total_bytes_limit_
                    \/ o.c.current_limit_ = o.c.total_bytes_limit_
    <3>1. /\ b \in BOOLEAN /\ cis' = [o.c EXCEPT !.legitimate_message_end_ = b]
          /\ call' = NoCall /\ Returns(call.op, call.n, FALSE, <<>>)
      BY <2>3, Zenon DEF Return
    <3> HIDE DEF b
    <3> QED
      BY <1>1, <1>4, <2>1, <2>3, <3>1, RefreshEndsVarint
  <2> QED
    BY <2>1, <2>2, <2>3
<1> QED
  BY <1>2, <1>3, <1>4, Zenon DEF AtVarint

LEMMA IsVarintOf ==
  ASSUME NEW g \in Bytes, Len(g) \in 1 .. MaxVarint, g[Len(g)] \notin High,
         \A j \in 1 .. Len(g) - 1 : g[j] \in High
  PROVE  Cursors!IsVarint(g)
<1>1. Len(g) \in Nat
  BY DEF Bytes
<1>2. ASSUME NEW i \in 1 .. Len(g) PROVE g[i] \in High <=> i < Len(g)
  <2>1. i = Len(g) \/ (i \in 1 .. Len(g) - 1 /\ i < Len(g))
    BY <1>1
  <2>2. ~(Len(g) < Len(g))
    BY <1>1
  <2> QED
    BY <2>1, <2>2
<1> QED
  BY <1>2 DEF Cursors!IsVarint

LEMMA FastVarintSteps ==
  ASSUME WriterInv, CursorInv, SkipsExactly, UNCHANGED outVars, RetOK,
         FastVarint
  PROVE  CallsCursor
<1> DEFINE r == Readable(cis)
           size == cis.buffer_size_
           k == VarintLen(r)
           g == Front(cis.buffer_, k)
<1>1. /\ call.stage = "varint" /\ limits' = limits /\ in' = in
      /\ Returns(call.op, call.n, k > 0, g) /\ cis' = Advance(cis, k)
      /\ call' = NoCall /\ call.stage \in {"fallback", "varint", "bytes"}
  BY DEF FastVarint, Return
<1>w. \/ size >= MaxVarint
      \/ size > 0 /\ cis.buffer_[size] \notin High
  BY DEF FastVarint, WholeVarint
<1>2. /\ cis.open /\ call # NoCall /\ call.stage # "none"
      /\ call.op = "ReadVarint" /\ call.from \in Nat
      /\ At(cis, in) = call.from + Len(call.got)
      /\ file \in Bytes /\ Held(cis, in) /\ CountOK(cis, in)
      /\ cis \in CodedInputs /\ size \in Nat
  BY <1>1, VarintCall
<1>3. call.got = <<>> /\ Len(call.got) = 0 /\ At(cis, in) = call.from
  <2>1. call.got = <<>>
    BY <1>1, <1>2, CallOf
  <2> QED
    BY <1>2, <2>1, EmptyBytes
<1>4. /\ r \in Bytes /\ Len(r) = size /\ cis.buffer_ \in Bytes
      /\ size <= Len(cis.buffer_)
      /\ \A j \in 1 .. size : r[j] = file[call.from + j]
                              /\ r[j] = cis.buffer_[j]
  BY <1>2, <1>3, ReadableOf
<1> HIDE DEF r
<1>5. /\ k \in 0 .. size /\ k <= MaxVarint
      /\ k > 0 => r[k] \notin High /\ \A j \in 1 .. k - 1 : r[j] \in High
      /\ k = 0 => \A j \in 1 .. size : j <= MaxVarint => r[j] \in High
  BY <1>4, VarintLenOf
<1> HIDE DEF k
<1>6. CASE k = 0
  <2>1. g = <<>>
    BY <1>4, <1>6, FrontWhole DEF Bytes
  <2>2. Returns("ReadVarint", call.n, FALSE, <<>>)
    <3>1. (k > 0) = FALSE
      BY <1>6
    <3> QED
      BY <1>1, <1>2, <2>1, <3>1
  <2>3. /\ SameEnds /\ lostBar' = lostBar /\ file' = file
        /\ cursorBar' = At(cis, in) + k
    BY <1>1, <1>2, <1>5, AdvanceBars
  <2>4. size >= MaxVarint
    <3>1. size > 0 => r[size] = cis.buffer_[size]
      BY <1>2, <1>4
    <3>2. size > 0 /\ size <= MaxVarint => r[size] \in High
      BY <1>2, <1>5, <1>6
    <3> QED
      BY <1>2, <1>w, <3>1, <3>2, MaxVarintAssumption
  <2>5. \A j \in 1 .. MaxVarint : file[call.from + j] \in High
    <3>1. \A j \in 1 .. MaxVarint : j \in 1 .. size /\ j <= MaxVarint
      BY <1>2, <2>4, MaxVarintAssumption
    <3> QED
      BY <1>4, <1>5, <1>6, <3>1
  <2>6. MaxVarint \in Nat /\ Endless(MaxVarint)
    BY <2>5, MaxVarintAssumption DEF Endless
  <2>7. cursorBar' = call.from + 0 /\ 0 \in Nat
    BY <1>2, <1>3, <1>6, <2>3
  <2>8. Cursors!Call /\ UNCHANGED file
    BY <1>2, <2>2, <2>3, <2>6, <2>7, FailsVarint
  <2> QED
    BY <2>8 DEF CallsCursor
<1>7. CASE k > 0
  <2>1. k \in 0 .. Len(cis.buffer_) /\ k \in Nat
    <3>1. Len(cis.buffer_) \in Nat
      BY <1>2, CodedFields
    <3> QED
      BY <1>2, <1>4, <1>5, <3>1
  <2>2. /\ g \in Bytes /\ Len(g) = k
        /\ \A j \in 1 .. k : g[j] = cis.buffer_[j]
    BY <1>4, <2>1, FrontOf DEF Bytes
  <2> HIDE DEF g
  <2>3. Returns(call.op, call.n, TRUE, g)
    <3>1. (k > 0) = TRUE
      BY <1>7
    <3> QED
      BY <1>1, <3>1
  <2>4. GotBy(g, k)
    BY <1>3, <2>1, <2>2 DEF GotBy
  <2>5. \A j \in 1 .. k : j \in 1 .. size
    BY <1>2, <1>5
  <2>6. \A j \in 1 .. k : g[j] = r[j]
    BY <1>4, <2>2, <2>5
  <2>7. Cursors!IsVarint(g)
    <3>1. k \in 1 .. MaxVarint /\ k \in 1 .. k
      BY <1>5, <1>7, <2>1, MaxVarintAssumption
    <3>2. g[k] \notin High
      BY <1>5, <1>7, <2>6, <3>1
    <3>3. \A j \in 1 .. k - 1 : j \in 1 .. k
      BY <2>1
    <3>4. \A j \in 1 .. k - 1 : g[j] \in High
      BY <1>5, <1>7, <2>6, <3>3
    <3> QED
      BY <2>2, <3>1, <3>2, <3>4, IsVarintOf
  <2>8. k \in 0 .. cis.buffer_size_ /\ (k = 0 => Len(g) = 0)
        /\ call.op # "Read"
    BY <1>2, <1>5, <2>2
  <2>9. Cursors!Call /\ UNCHANGED file
    BY <1>1, <1>2, <2>2, <2>3, <2>4, <2>7, <2>8, Delivers
  <2> QED
    BY <2>9 DEF CallsCursor
<1> QED
  BY <1>2, <1>5, <1>6, <1>7

LEMMA SlowVarintSteps ==
  ASSUME WriterInv, CursorInv, SkipsExactly, UNCHANGED outVars, SlowVarint
  PROVE  CallsCursor
<1>1. /\ call.stage \in {"fallback", "varint", "bytes"}
      /\ call' = [call EXCEPT !.stage = "bytes"]
      /\ UNCHANGED <<in, cis, limits, ret>>
  BY DEF SlowVarint
<1> QED
  BY <1>1, CallMoves

LEMMA VarintByteSteps ==
  ASSUME WriterInv, CursorInv, SkipsExactly, UNCHANGED outVars, RetOK,
         VarintByte
  PROVE  CallsCursor
<1> DEFINE m == Len(call.got)
           g == Append(call.got, cis.buffer_[1])
<1>1. call.stage = "bytes" /\ limits' = limits
      /\ call.stage \in {"fallback", "varint", "bytes"}
  BY DEF VarintByte
<1>2. /\ cis.open /\ call # NoCall /\ call.stage # "none"
      /\ call.op = "ReadVarint" /\ call.from \in Nat
      /\ call.got \in Bytes /\ m \in Nat
      /\ At(cis, in) = call.from + m
      /\ \A j \in 1 .. m : file[call.from + j] \in High
      /\ m > 0 => At(cis, in) <= StopAt(cis, in)
      /\ file \in Bytes /\ Held(cis, in) /\ CountOK(cis, in)
      /\ cis \in CodedInputs /\ cis.buffer_size_ \in Nat
      /\ cursorBar = call.from
  BY <1>1, VarintCall
<1>3. \/ /\ m = MaxVarint
         /\ Return(FALSE, <<>>, cis) /\ in' = in
      \/ /\ cis.buffer_size_ = 0
         /\ \E o \in Refresh(cis) :
              /\ in' = o.in
              /\ \/ o.ok /\ cis' = o.c /\ UNCHANGED <<call, ret>>
                 \/ ~o.ok /\ Return(FALSE, <<>>, o.c)
      \/ /\ m < MaxVarint /\ cis.buffer_size_ > 0
         /\ in' = in /\ cis' = Advance(cis, 1)
         /\ \/ /\ cis.buffer_[1] \notin High
               /\ Return(TRUE, g, Advance(cis, 1))
            \/ /\ call' = [call EXCEPT !.got = g]
               /\ ret' = ret
  BY Zenon DEF VarintByte, Return
<1> HIDE DEF m
<1>4. CASE /\ m = MaxVarint
           /\ Return(FALSE, <<>>, cis) /\ in' = in
  <2>1. /\ cis' = cis /\ call' = NoCall /\ in' = in
        /\ Returns("ReadVarint", call.n, FALSE, <<>>)
    BY <1>2, <1>4 DEF Return
  <2>2. SameEnds /\ file' = file /\ lostBar' = lostBar
    BY <1>1, <1>2, <2>1 DEF SameEnds, SameInput, lostBar, outVars
  <2>3. cursorBar' = call.from + m
    BY <1>2, <2>1 DEF cursorBar, Cursor, At
  <2>4. m >= MaxVarint /\ m > 0
    BY <1>2, <1>4, MaxVarintAssumption
  <2>5. \E h \in Nat : Endless(h)
    BY <1>2, <2>4 DEF Endless
  <2>6. m = 0 \/ call.from + m <= StopAt(cis, in)
    BY <1>2, <2>4
  <2>7. Cursors!Call /\ UNCHANGED file
    BY <1>2, <2>1, <2>2, <2>3, <2>5, <2>6, FailsVarint
  <2> QED
    BY <2>7 DEF CallsCursor
<1>5. CASE /\ cis.buffer_size_ = 0
           /\ \E o \in Refresh(cis) :
                /\ in' = o.in
                /\ \/ o.ok /\ cis' = o.c /\ UNCHANGED <<call, ret>>
                   \/ ~o.ok /\ Return(FALSE, <<>>, o.c)
  <2>1. PICK o \in Refresh(cis) :
                /\ in' = o.in
                /\ \/ o.ok /\ cis' = o.c /\ UNCHANGED <<call, ret>>
                   \/ ~o.ok /\ Return(FALSE, <<>>, o.c)
    BY <1>5
  <2>2. CASE o.ok /\ cis' = o.c /\ UNCHANGED <<call, ret>>
    <3>1. call.stage \in {"fallback", "bytes"}
      BY <1>1
    <3> QED
      BY <1>1, <2>1, <2>2, <3>1, RefillsVarint
  <2>3. CASE ~o.ok /\ Return(FALSE, <<>>, o.c)
    <3>1. /\ cis' = o.c /\ call' = NoCall
          /\ Returns(call.op, call.n, FALSE, <<>>)
          /\ call.stage \in {"fallback", "bytes"}
      BY <1>1, <2>3 DEF Return
    <3> QED
      BY <1>1, <1>5, <2>1, <2>3, <3>1, TRUE \in BOOLEAN, RefreshEndsVarint
  <2> QED
    BY <2>1, <2>2, <2>3
<1>6. CASE /\ m < MaxVarint /\ cis.buffer_size_ > 0
           /\ in' = in /\ cis' = Advance(cis, 1)
           /\ \/ /\ cis.buffer_[1] \notin High
                 /\ Return(TRUE, g, Advance(cis, 1))
              \/ /\ call' = [call EXCEPT !.got = g]
                 /\ ret' = ret
  <2>1. 1 \in 0 .. cis.buffer_size_
    BY <1>2, <1>6
  <2>2. CASE cis.buffer_[1] \notin High /\ Return(TRUE, g, Advance(cis, 1))
    <3> DEFINE b == cis.buffer_[1]
    <3>1. b \in Nat
      <4>1. cis.buffer_ \in Seq(Nat) /\ cis.buffer_size_ <= Len(cis.buffer_)
        BY <1>2, ReadableOf DEF Bytes
      <4>2. 1 \in 1 .. Len(cis.buffer_)
        <5>1. Len(cis.buffer_) \in Nat
          BY <4>1
        <5> QED
          BY <1>2, <1>6, <4>1, <5>1
      <4> QED
        BY <4>1, <4>2, ElementOfSeq
    <3>2. /\ g \in Seq(Nat) /\ Len(g) = m + 1
          /\ \A j \in 1 .. m : g[j] = call.got[j]
          /\ g[m + 1] = b
      <4> HIDE DEF b
      <4>1. call.got \in Seq(Nat)
        BY <1>2 DEF Bytes
      <4>2. g = Append(call.got, b)
        BY DEF b
      <4> HIDE DEF g
      <4> QED
        BY <3>1, <4>1, <4>2, AppendProperties DEF m
    <3> HIDE DEF g
    <3>3. GotBy(g, 1)
      <4>1. \A j \in 1 .. 1 : g[m + j] = cis.buffer_[j]
        BY <3>2
      <4> QED
        BY <3>2, <4>1 DEF GotBy, m
    <3>4. g \in Bytes
      BY <3>2 DEF Bytes
    <3>5. \A j \in 1 .. m : call.got[j] \in High
      BY <1>1, <1>2, CallOf DEF m
    <3>6. Cursors!IsVarint(g)
      <4>1. m + 1 \in 1 .. MaxVarint /\ (m + 1) - 1 = m
        BY <1>2, <1>6, MaxVarintAssumption
      <4>2. g[Len(g)] \notin High
        BY <2>2, <3>2
      <4>3. \A j \in 1 .. Len(g) - 1 : g[j] \in High
        BY <3>2, <3>5, <4>1
      <4> QED
        BY <3>2, <3>4, <4>1, <4>2, <4>3, IsVarintOf
    <3>7. Returns(call.op, call.n, TRUE, g) /\ call' = NoCall
      BY <2>2, Zenon DEF Return
    <3>8. 1 = 0 => Len(g) = 0
      OBVIOUS
    <3>9. call.op # "Read"
      BY <1>2
    <3>10. Cursors!Call /\ UNCHANGED file
      BY <1>1, <1>2, <1>6, <2>1, <3>3, <3>4, <3>6, <3>7, <3>8, <3>9, Delivers
    <3> QED
      BY <3>10 DEF CallsCursor
  <2>3. CASE call' = [call EXCEPT !.got = g] /\ ret' = ret
    <3>1. call \in [op : {"Read", "ReadVarint"},
                    stage : {"copy", "fallback", "varint", "bytes"},
                    n : Int, got : Bytes, from : Nat]
      BY <1>2, CallOf
    <3>2. call'.from = call.from /\ call'.op = call.op
      BY <2>3, <3>1
    <3>3. call' # NoCall
      BY <1>2, <3>2 DEF NoCall
    <3>4. SameEnds /\ file' = file /\ lostBar' = lostBar
          /\ cursorBar' = cursorBar
      BY <1>1, <1>2, <1>6, <2>1, <3>2, <3>3, AdvanceBars
    <3>5. StillCalling
      BY <2>3, <3>4 DEF StillCalling
    <3> QED
      BY <3>5, StillCallingSteps DEF CallsCursor
  <2> QED
    BY <1>6, <2>2, <2>3
<1> QED
  BY <1>3, <1>4, <1>5, <1>6

\* Between calls the cursor is where the reader stands.
LEMMA IdleBars ==
  ASSUME WriterInv, CursorInv, SkipsExactly, Idle
  PROVE  /\ cis.open /\ call = NoCall /\ cursorBar = At(cis, in)
         /\ Cursors!Bound = BoundAt(cis, in) /\ Cursors!Stop = StopAt(cis, in)
         /\ lostBar = LostAt(cis, in)
         /\ file \in Bytes /\ Held(cis, in) /\ CountOK(cis, in) /\ LimitsOK
         /\ cis \in CodedInputs /\ CountsOK(cis)
BY ReaderState, ExactHere, Bars, Zenon DEF Idle

LEMMA BeginSteps ==
  ASSUME WriterInv, CursorInv, UNCHANGED outVars,
         NEW op, NEW stage, NEW n, Begin(op, stage, n), op # "none"
  PROVE  Cursors!Forget /\ UNCHANGED file /\ RetOK'
<1>1. /\ Idle /\ UNCHANGED <<in, cis, limits>>
      /\ call' = [op |-> op, stage |-> stage, n |-> n, got |-> <<>>,
                  from |-> Cursor]
      /\ ret' = [NoResult EXCEPT !.reader = ret.reader]
  BY Zenon DEF Begin
<1>2. ret'.op = "none" /\ RetOK'
  BY <1>1 DEF NoResult, RetOK
<1>3. call'.from = Cursor /\ call' # NoCall
  BY <1>1 DEF NoCall
<1>4. cursorBar' = cursorBar
  BY <1>1, <1>3 DEF cursorBar, Idle
<1>5. SameEnds /\ lostBar' = lostBar /\ file' = file
  BY <1>1 DEF SameEnds, SameInput, lostBar, outVars, Idle
<1>6. Cursors!Forget
  BY <1>2, <1>4, <1>5, EndsKept DEF Cursors!Forget
<1> QED
  BY <1>2, <1>5, <1>6

\* A negative size is refused.
LEMMA RefusedSteps ==
  ASSUME WriterInv, CursorInv, SkipsExactly, UNCHANGED outVars, RetOK, Idle,
         NEW op \in {"Read", "Skip"}, NEW n \in Int, n < 0,
         Returns(op, n, FALSE, <<>>), UNCHANGED <<in, cis, limits, call>>
  PROVE  CallsCursor
<1>1. ret'.op = op /\ ret'.n = n /\ ret'.ok = FALSE
  BY ReturnsOf
<1>2. cursorBar' = cursorBar
  BY DEF cursorBar, Cursor
<1>3. SameEnds /\ lostBar' = lostBar /\ file' = file
  BY DEF SameEnds, SameInput, lostBar, outVars, Idle
<1>4. Cursors!Fail
  BY <1>1, <1>2, <1>3, EndsKept DEF Cursors!Fail
<1> QED
  BY <1>3, <1>4 DEF CallsCursor, Cursors!Call

LEMMA ExpectTagSteps ==
  ASSUME WriterInv, CursorInv, SkipsExactly, UNCHANGED outVars, RetOK,
         NEW k \in 0 .. 2, ExpectTag(k)
  PROVE  CallsCursor
<1> DEFINE r == Readable(cis)
           size == cis.buffer_size_
           hit == k \in {1, 2} /\ VarintLen(r) = k
           n == IF hit THEN k ELSE 0
           g == Front(cis.buffer_, n)
<1>1. /\ Idle /\ UNCHANGED <<in, limits>> /\ call' = call
      /\ cis' = Advance(cis, n) /\ Returns("ExpectTag", k, hit, g)
  BY Zenon DEF ExpectTag, AtOnce
<1>2. /\ cis.open /\ call = NoCall /\ cursorBar = At(cis, in)
      /\ Cursors!Stop = StopAt(cis, in) /\ lostBar = LostAt(cis, in)
      /\ file \in Bytes /\ Held(cis, in) /\ CountOK(cis, in)
      /\ cis \in CodedInputs
  BY <1>1, IdleBars
<1>3. /\ r \in Bytes /\ Len(r) = size /\ cis.buffer_ \in Bytes
      /\ size <= Len(cis.buffer_) /\ size \in Nat
      /\ \A j \in 1 .. size : r[j] = file[At(cis, in) + j]
                              /\ r[j] = cis.buffer_[j]
  BY <1>2, ReadableOf
<1> HIDE DEF r
<1>4. /\ hit => /\ k \in 1 .. size /\ k <= MaxVarint /\ r[k] \notin High
                /\ \A j \in 1 .. k - 1 : r[j] \in High
  <2> SUFFICES ASSUME hit
               PROVE  /\ k \in 1 .. size /\ k <= MaxVarint /\ r[k] \notin High
                      /\ \A j \in 1 .. k - 1 : r[j] \in High
    OBVIOUS
  <2> DEFINE v == VarintLen(r)
  <2>1. /\ v \in 0 .. Len(r) /\ v <= MaxVarint
        /\ v > 0 => r[v] \notin High /\ \A j \in 1 .. v - 1 : r[j] \in High
    BY <1>3, VarintLenOf
  <2>2. v = k /\ k > 0 /\ k \in Nat
    OBVIOUS
  <2> HIDE DEF v
  <2> QED
    BY <1>3, <2>1, <2>2
<1>5. n \in 0 .. size
  BY <1>3, <1>4
<1>6. hit \in BOOLEAN
  OBVIOUS
<1>7. /\ SameEnds /\ lostBar' = lostBar /\ file' = file
      /\ cursorBar' = At(cis, in) + n
  <2>1. call' = NoCall
    BY <1>1, <1>2
  <2> HIDE DEF n
  <2> QED
    BY <1>1, <1>2, <1>5, <2>1, AdvanceBars
<1>8. ret'.op = "ExpectTag" /\ ret'.ok = hit /\ ret'.bytes = g
  <2> HIDE DEF hit, g
  <2> QED
    BY <1>1, ReturnsOf
<1>9. At(cis, in) \in Nat
  BY <1>2, HeldOf
<1>10. CASE ~hit
  <2>1. n = 0
    BY <1>10
  <2>2. cursorBar' = cursorBar /\ ~ret'.ok
    <3>1. At(cis, in) + n = At(cis, in)
      BY <1>9, <2>1
    <3> HIDE DEF n, hit, g
    <3>2. ret'.ok = hit
      BY <1>8
    <3>3. cursorBar' = cursorBar
      BY <1>2, <1>7, <3>1
    <3> QED
      BY <1>10, <3>2, <3>3
  <2>3. Cursors!Look
    BY <1>7, <1>8, <2>2, EndsKept DEF Cursors!Look
  <2> QED
    BY <1>7, <2>3 DEF CallsCursor, Cursors!Call
<1>11. CASE hit
  <2>1. n = k /\ k \in Nat /\ k > 0 /\ k \in 1 .. size
    BY <1>4, <1>11
  <2>2. k \in 0 .. Len(cis.buffer_)
    <3>1. Len(cis.buffer_) \in Nat
      BY <1>2, CodedFields
    <3> QED
      BY <1>3, <2>1, <3>1
  <2>3. g = Front(cis.buffer_, k)
    BY <2>1
  <2> HIDE DEF g
  <2>4. /\ g \in Bytes /\ Len(g) = k
        /\ \A j \in 1 .. k : g[j] = cis.buffer_[j]
    BY <1>3, <2>2, <2>3, FrontOf DEF Bytes
  <2>5. \A j \in 1 .. k : j \in 1 .. size
    BY <1>3, <2>1
  <2>6. \A j \in 1 .. k : g[j] = r[j] /\ g[j] = file[At(cis, in) + j]
    BY <1>3, <2>4, <2>5
  <2>7. /\ ~LostAt(cis, in) /\ At(cis, in) + size <= StopAt(cis, in)
        /\ StopAt(cis, in) \in Int /\ StopAt(cis, in) <= Len(file)
    <3>1. size > 0
      BY <1>3, <2>1
    <3> QED
      BY <1>2, <3>1, Standing
  <2>8. At(cis, in) + k <= StopAt(cis, in) /\ At(cis, in) + k <= Len(file)
    <3>1. Len(file) \in Nat
      BY <1>2 DEF Bytes
    <3>2. k <= size
      BY <1>3, <2>1
    <3> HIDE DEF size
    <3> QED
      BY <1>3, <1>9, <2>1, <2>7, <3>1, <3>2
  <2>9. g = Cursors!Upcoming(k)
    <3>1. At(cis, in) + Len(g) <= Len(file)
          /\ \A j \in 1 .. Len(g) : g[j] = file[At(cis, in) + j]
      BY <2>4, <2>6, <2>8
    <3>2. g = SubSeq(file, At(cis, in) + 1, At(cis, in) + Len(g))
      BY <1>2, <1>9, <2>4, <3>1, NextBytes
    <3> QED
      BY <1>2, <2>4, <3>2 DEF Cursors!Upcoming
  <2>10. Cursors!IsVarint(g)
    <3>1. k \in 1 .. MaxVarint /\ k \in 1 .. k
      BY <1>4, <1>11, <2>1, MaxVarintAssumption
    <3>2. g[k] \notin High
      BY <1>4, <1>11, <2>6, <3>1
    <3>3. \A j \in 1 .. k - 1 : j \in 1 .. k
      BY <2>1
    <3>4. \A j \in 1 .. k - 1 : g[j] \in High
      BY <1>4, <1>11, <2>6, <3>3
    <3> QED
      BY <2>4, <3>1, <3>2, <3>4, IsVarintOf
  <2>11. /\ ret'.op = "ExpectTag" /\ ret'.ok /\ ret'.bytes = g
    BY <1>8, <1>11
  <2>12. /\ ~lostBar /\ cursorBar + k <= Cursors!Stop
         /\ cursorBar' = cursorBar + k
    BY <1>2, <1>7, <2>1, <2>7, <2>8
  <2> HIDE DEF n, hit
  <2>13. Cursors!Deliver
    BY <1>7, <2>4, <2>9, <2>10, <2>11, <2>12, EndsKept
       DEF Cursors!Deliver, Cursors!Reading
  <2> QED
    BY <1>7, <2>13 DEF CallsCursor, Cursors!Call
<1> QED
  BY <1>10, <1>11

LEMMA ExpectAtEndSteps ==
  ASSUME WriterInv, CursorInv, SkipsExactly, UNCHANGED outVars, RetOK,
         ExpectAtEnd
  PROVE  CallsCursor
<1> DEFINE hit == cis.buffer_size_ = 0 /\ cis.buffer_size_after_limit_ # 0
           b == cis.legitimate_message_end_ \/ hit
<1>1. /\ Idle /\ UNCHANGED <<in, limits>> /\ call' = call
      /\ Returns("ExpectAtEnd", 0, hit, <<>>)
      /\ cis' = [cis EXCEPT !.legitimate_message_end_ = b]
  BY Zenon DEF ExpectAtEnd, AtOnce
<1>2. /\ cis.open /\ call = NoCall /\ cursorBar = At(cis, in)
      /\ Cursors!Stop = StopAt(cis, in) /\ lostBar = LostAt(cis, in)
      /\ file \in Bytes /\ Held(cis, in) /\ CountOK(cis, in)
      /\ cis \in CodedInputs
  BY <1>1, IdleBars
<1>3. ret'.op = "ExpectAtEnd" /\ ret'.ok = hit
  <2> HIDE DEF hit
  <2> QED
    BY <1>1, ReturnsOf
<1>4. hit => cursorBar >= Cursors!Stop
  <2> SUFFICES ASSUME hit PROVE cursorBar >= Cursors!Stop
    OBVIOUS
  <2>1. cis.buffer_size_after_limit_ > 0 /\ cis.buffer_size_ = 0
    <3>1. cis.buffer_size_after_limit_ \in Nat
      BY <1>2, CodedFields
    <3> QED
      BY <3>1
  <2>2. At(cis, in) + cis.buffer_size_ = StopAt(cis, in) /\ At(cis, in) \in Nat
    BY <1>2, <2>1, Standing
  <2> QED
    BY <1>2, <2>1, <2>2
<1>5. b \in BOOLEAN /\ hit \in BOOLEAN
  OBVIOUS
<1> HIDE DEF b, hit
<1>6. /\ At(cis', in) = At(cis, in) /\ Lag(cis', in) = Lag(cis, in)
      /\ Held(cis', in) /\ cis'.open = cis.open
      /\ cis'.base = cis.base /\ cis'.current_limit_ = cis.current_limit_
      /\ cis'.total_bytes_limit_ = cis.total_bytes_limit_
  <2>1. PICK x \in BOOLEAN : cis' = [cis EXCEPT !.legitimate_message_end_ = x]
    BY <1>1, <1>5
  <2>2. Held(cis, in)
    BY <1>2
  <2> QED
    BY <2>1, <2>2, EndNoted
<1>7. SameEnds /\ file' = file /\ in' = in /\ call' = NoCall
  BY <1>1, <1>2, <1>6 DEF SameEnds, SameInput, outVars
<1>8. cursorBar' = cursorBar /\ lostBar' = lostBar
  <2>1. file' \in Bytes /\ Held(cis', in') /\ cis'.open
    BY <1>2, <1>6, <1>7
  <2>2. cursorBar' = At(cis', in') /\ lostBar' = LostAt(cis', in')
    BY <1>7, <2>1, BarsNext
  <2>3. LostAt(cis', in') = LostAt(cis, in)
    BY <1>6, <1>7 DEF LostAt
  <2> QED
    BY <1>2, <1>6, <1>7, <2>2, <2>3
<1>9. Cursors!Look
  BY <1>3, <1>4, <1>7, <1>8, EndsKept DEF Cursors!Look
<1> QED
  BY <1>7, <1>9 DEF CallsCursor, Cursors!Call

\* Counting the buffer anew moves neither the cursor nor the end of the input.
LEMMA LimitingBars ==
  ASSUME WriterInv, CursorInv, UNCHANGED outVars, Idle,
         NEW e \in CodedInputs, SameCounts(cis, e),
         cis' = RecomputeBufferLimits(e), in' = in, call' = call
  PROVE  /\ cis'.open /\ cis'.base = cis.base
         /\ cis'.current_limit_ = e.current_limit_
         /\ cis'.total_bytes_limit_ = e.total_bytes_limit_
         /\ cursorBar' = cursorBar /\ lostBar' = lostBar /\ endBar' = endBar
         /\ file' = file
<1>1. /\ e.open = cis.open /\ e.base = cis.base /\ e.buffer_ = cis.buffer_
      /\ e.total_bytes_read_ = cis.total_bytes_read_
      /\ e.overflow_bytes_ = cis.overflow_bytes_
  BY DEF SameCounts
<1> DEFINE after == Greatest(0, e.total_bytes_read_ - Closest(e))
           size == e.buffer_size_ + e.buffer_size_after_limit_ - after
<1>2. cis' = [e EXCEPT !.buffer_size_after_limit_ = after,
                       !.buffer_size_ = size]
  BY DEF RecomputeBufferLimits
<1> HIDE DEF after, size
<1>3. /\ cis'.open = e.open /\ cis'.base = e.base
      /\ cis'.buffer_ = e.buffer_
      /\ cis'.total_bytes_read_ = e.total_bytes_read_
      /\ cis'.overflow_bytes_ = e.overflow_bytes_
      /\ cis'.current_limit_ = e.current_limit_
      /\ cis'.total_bytes_limit_ = e.total_bytes_limit_
  BY <1>2 DEF CodedInputs
<1>4. /\ cis'.open = cis.open /\ cis'.base = cis.base
      /\ cis'.buffer_ = cis.buffer_
      /\ cis'.total_bytes_read_ = cis.total_bytes_read_
      /\ cis'.overflow_bytes_ = cis.overflow_bytes_
  BY <1>1, <1>3
<1>5. cursorBar' = cursorBar /\ lostBar' = lostBar /\ endBar' = endBar
  BY <1>4 DEF cursorBar, Cursor, lostBar, endBar
<1> QED
  BY <1>3, <1>4, <1>5 DEF Idle, outVars

\* A new limit is the innermost one, unless the stream has lost count.
LEMMA PushLimitSteps ==
  ASSUME WriterInv, CursorInv, SkipsExactly, UNCHANGED outVars, RetOK,
         NEW n \in LimitSizes, PushLimit(n)
  PROVE  CallsCursor
<1> DEFINE position == Position(cis)
           current == cis.current_limit_
           base == cis.base
           wanted == IF n >= 0 /\ n <= IntMax - position
                     THEN position + n ELSE IntMax
           inner == Least(wanted, current)
           e == [cis EXCEPT !.current_limit_ = inner]
           at == At(cis, in)
           lag == Lag(cis, in)
           l == base + inner
<1>1. /\ Idle /\ cis' = RecomputeBufferLimits(e) /\ in' = in /\ call' = call
      /\ limits' = Append(limits, current)
      /\ Returns("PushLimit", n, TRUE, <<>>)
  BY Zenon DEF PushLimit, AtOnce
<1>2. /\ cis.open /\ cursorBar = at /\ lostBar = LostAt(cis, in)
      /\ file \in Bytes /\ Held(cis, in) /\ CountOK(cis, in) /\ LimitsOK
      /\ cis \in CodedInputs /\ CountsOK(cis)
  BY <1>1, IdleBars
<1>3. /\ at \in Nat /\ lag \in Int /\ lag >= 0 /\ at = base + position - lag
  BY <1>2, Standing
<1>4. /\ n \in Int /\ IntMax \in Nat /\ current \in Nat /\ current <= IntMax
      /\ position \in Nat /\ base \in Nat
  <2>1. /\ n \in Int /\ IntMax \in Nat /\ current \in Nat /\ base \in Nat
    BY <1>2, CodedFields, IntMaxAssumption, SizesAssumption
  <2>2. current <= IntMax
    BY <1>2 DEF CountsOK
  <2>3. position \in Nat
    BY <1>2, CountsOf
  <2> QED
    BY <2>1, <2>2, <2>3
<1>5. ~lostBar => lag = 0
  BY <1>2 DEF LostAt
<1> HIDE DEF position, current, base, at, lag
<1>6. /\ inner \in Nat /\ inner <= current
      /\ \/ inner = position + n /\ n >= 0
         \/ inner = current /\ (n < 0 \/ position + n >= current)
  BY <1>4 DEF Least
<1> HIDE DEF inner
<1>7. /\ e \in CodedInputs /\ SameCounts(cis, e) /\ e.current_limit_ = inner
      /\ e.total_bytes_limit_ = cis.total_bytes_limit_
  BY <1>2, <1>6 DEF CodedInputs, SameCounts
<1> HIDE DEF e
<1>8. /\ cis'.open /\ cis'.base = base /\ cis'.current_limit_ = inner
      /\ cis'.total_bytes_limit_ = cis.total_bytes_limit_
      /\ cursorBar' = cursorBar /\ lostBar' = lostBar /\ endBar' = endBar
      /\ file' = file
  BY <1>1, <1>7, LimitingBars DEF base
<1>9. /\ limits \in Seq(Nat) /\ limitsBar = LimitsAt(base, limits, current)
      /\ limitsBar[Len(limitsBar)] = base + current
  BY <1>2, LimitsBarOf DEF base, current
<1>10. limitsBar' = LimitsAt(base, Append(limits, current), inner)
  BY <1>1, <1>8 DEF limitsBar, LimitsAt
<1>11. limitsBar' = Append(limitsBar, l)
  <2>1. base \in Nat /\ current \in Nat /\ inner \in Nat /\ limits \in Seq(Nat)
    BY <1>4, <1>6, <1>9
  <2>2. limitsBar' = Append(LimitsAt(base, limits, current), base + inner)
    BY <1>10, <2>1, PushedLimits
  <2> QED
    BY <1>9, <2>2 DEF l
<1> DEFINE last == base + current
<1>12. /\ l <= last /\ last \in Int /\ l \in Int
       /\ lag = 0 => \/ l = at + n
                     \/ l = last /\ (n < 0 \/ at + n >= l)
  <2>1. l <= last /\ last \in Int /\ l \in Int
    BY <1>4, <1>6
  <2>2. ASSUME lag = 0, inner = position + n PROVE l = at + n
    BY <1>3, <1>4, <2>2
  <2>3. ASSUME lag = 0, position + n >= current PROVE at + n >= last
    BY <1>3, <1>4, <2>3
  <2>4. inner = current => l = last
    OBVIOUS
  <2> HIDE DEF l, last
  <2> QED
    BY <1>6, <2>1, <2>2, <2>3, <2>4
<1>13. ret'.op = "PushLimit" /\ ret'.n = n
  BY <1>1, ReturnsOf
<1>14. \E x \in {last, at + n} :
         /\ x <= last
         /\ x = at + n \/ n < 0 \/ at + n >= x
         /\ limitsBar' = Append(limitsBar, x) \/ lostBar
  <2>1. CASE lostBar
    <3>1. CASE at + n <= last
      BY <2>1, <3>1
    <3>2. CASE ~(at + n <= last)
      <4>1. at + n >= last /\ last <= last
        <5> HIDE DEF last
        <5> QED
          BY <1>3, <1>4, <1>12, <3>2
      <4> HIDE DEF last
      <4> QED
        BY <2>1, <4>1
    <3> QED
      BY <3>1, <3>2
  <2>2. CASE ~lostBar
    <3>1. l = at + n \/ (l = last /\ (n < 0 \/ at + n >= l))
      BY <1>5, <1>12, <2>2
    <3> HIDE DEF l, last
    <3> QED
      BY <1>11, <1>12, <3>1
  <2> QED
    BY <2>1, <2>2
<1>15. Cursors!PushLimit
  <2> HIDE DEF l, last
  <2>1. limitsBar[Len(limitsBar)] = last
    BY <1>9 DEF last
  <2>2. cis'.base + cis'.total_bytes_limit_ = cis.base + cis.total_bytes_limit_
    BY <1>8 DEF base
  <2> QED
    BY <1>2, <1>8, <1>13, <1>14, <2>1, <2>2 DEF Cursors!PushLimit
<1> QED
  BY <1>8, <1>15 DEF CallsCursor, Cursors!Call

LEMMA PopLimitSteps ==
  ASSUME WriterInv, CursorInv, SkipsExactly, UNCHANGED outVars, RetOK, PopLimit
  PROVE  CallsCursor
<1> DEFINE n == Len(limits)
           outer == limits[n]
           e == [cis EXCEPT !.current_limit_ = outer,
                            !.legitimate_message_end_ = FALSE]
<1>1. /\ Idle /\ cis' = RecomputeBufferLimits(e) /\ in' = in /\ call' = call
      /\ limits # <<>> /\ limits' = Front(limits, n - 1)
      /\ Returns("PopLimit", 0, TRUE, <<>>)
  BY Zenon DEF PopLimit, AtOnce
<1>2. /\ cis.open /\ LimitsOK /\ cis \in CodedInputs
  BY <1>1, IdleBars
<1>3. /\ limits \in Seq(Nat) /\ n \in Nat
      /\ limitsBar = LimitsAt(cis.base, limits, cis.current_limit_)
  BY <1>2, LimitsBarOf
<1>4. n > 0 /\ n \in 1 .. n
  BY <1>1, <1>3, EmptySeq
<1>5. outer \in Nat
  BY <1>3, <1>4, ElementOfSeq
<1> HIDE DEF outer
<1>6. /\ e \in CodedInputs /\ SameCounts(cis, e) /\ e.current_limit_ = outer
      /\ e.total_bytes_limit_ = cis.total_bytes_limit_
  BY <1>2, <1>5 DEF CodedInputs, SameCounts
<1> HIDE DEF e
<1>7. /\ cis'.open /\ cis'.base = cis.base /\ cis'.current_limit_ = outer
      /\ cis'.total_bytes_limit_ = cis.total_bytes_limit_
      /\ cursorBar' = cursorBar /\ lostBar' = lostBar /\ endBar' = endBar
      /\ file' = file
  BY <1>1, <1>6, LimitingBars
<1>8. limitsBar' = LimitsAt(cis.base, Front(limits, n - 1), outer)
  BY <1>1, <1>7 DEF limitsBar, LimitsAt
<1>9. limitsBar' = SubSeq(limitsBar, 1, Len(limitsBar) - 1)
  <2>1. cis.base \in Nat /\ cis.current_limit_ \in Nat
    BY <1>2, CodedFields
  <2> QED
    BY <1>3, <1>4, <1>8, <2>1, PoppedLimits DEF outer
<1>10. ret'.op = "PopLimit"
  BY <1>1, ReturnsOf
<1>11. Cursors!PopLimit
  BY <1>7, <1>9, <1>10 DEF Cursors!PopLimit
<1> QED
  BY <1>7, <1>11 DEF CallsCursor, Cursors!Call

LEMMA SetTotalSteps ==
  ASSUME WriterInv, CursorInv, SkipsExactly, UNCHANGED outVars, RetOK,
         NEW n \in TotalLimits, SetTotalBytesLimit(n)
  PROVE  CallsCursor
<1> DEFINE position == Position(cis)
           most == Greatest(position, n)
           e == [cis EXCEPT !.total_bytes_limit_ = most]
<1>1. /\ Idle /\ cis' = RecomputeBufferLimits(e) /\ in' = in /\ call' = call
      /\ limits' = limits /\ Returns("SetTotalBytesLimit", n, TRUE, <<>>)
  BY Zenon DEF SetTotalBytesLimit, AtOnce
<1>2. /\ cis.open /\ cursorBar = At(cis, in)
      /\ file \in Bytes /\ Held(cis, in) /\ CountOK(cis, in)
      /\ cis \in CodedInputs /\ CountsOK(cis)
  BY <1>1, IdleBars
<1>3. /\ At(cis, in) \in Nat /\ Lag(cis, in) \in Int /\ Lag(cis, in) >= 0
      /\ At(cis, in) = cis.base + position - Lag(cis, in)
  BY <1>2, Standing
<1>4. position \in Nat /\ cis.base \in Nat
  BY <1>2, CountsOf, CodedFields
<1> HIDE DEF position
<1>5. most \in Nat /\ position <= most
  <2>1. n \in Nat
    BY TotalLimitsAssumption, IntMaxAssumption
  <2> QED
    BY <1>4, <2>1 DEF Greatest
<1> HIDE DEF most
<1>6. /\ e \in CodedInputs /\ SameCounts(cis, e)
      /\ e.current_limit_ = cis.current_limit_ /\ e.total_bytes_limit_ = most
  BY <1>2, <1>5 DEF CodedInputs, SameCounts
<1> HIDE DEF e
<1>7. /\ cis'.open /\ cis'.base = cis.base
      /\ cis'.current_limit_ = cis.current_limit_
      /\ cis'.total_bytes_limit_ = most
      /\ cursorBar' = cursorBar /\ lostBar' = lostBar /\ endBar' = endBar
      /\ file' = file
  BY <1>1, <1>6, LimitingBars
<1>8. limitsBar' = limitsBar
  BY <1>1, <1>2, <1>7 DEF limitsBar
<1>9. cis'.base + cis'.total_bytes_limit_ >= cursorBar
  BY <1>2, <1>3, <1>4, <1>5, <1>7
<1>10. ret'.op = "SetTotalBytesLimit"
  BY <1>1, ReturnsOf
<1>11. Cursors!SetTotal
  BY <1>7, <1>8, <1>9, <1>10 DEF Cursors!SetTotal
<1> QED
  BY <1>7, <1>11 DEF CallsCursor, Cursors!Call

\* A call of Skip() that ends in the buffer, having asked for n bytes.
LEMMA SkipAdvances ==
  ASSUME WriterInv, CursorInv, SkipsExactly, UNCHANGED outVars, RetOK, Idle,
         NEW n \in Nat, NEW m \in 0 .. cis.buffer_size_,
         cis' = Advance(cis, m), UNCHANGED <<in, limits, call>>,
         NEW ok \in BOOLEAN, Returns("Skip", n, ok, <<>>),
         \/ ok /\ m = n
         \/ /\ ~ok /\ n > m /\ m = cis.buffer_size_
            /\ cis.buffer_size_after_limit_ > 0
  PROVE  CallsCursor
<1>1. /\ cis.open /\ call = NoCall /\ cursorBar = At(cis, in)
      /\ Cursors!Bound = BoundAt(cis, in) /\ Cursors!Stop = StopAt(cis, in)
      /\ lostBar = LostAt(cis, in)
      /\ file \in Bytes /\ Held(cis, in) /\ CountOK(cis, in)
      /\ cis \in CodedInputs
  BY IdleBars
<1>2. /\ At(cis, in) \in Nat /\ StopAt(cis, in) \in Int
      /\ BoundAt(cis, in) \in Int
      /\ StopAt(cis, in) <= BoundAt(cis, in) /\ At(cis, in) <= BoundAt(cis, in)
      /\ cis.buffer_size_ > 0 =>
           ~LostAt(cis, in) /\ At(cis, in) + cis.buffer_size_ <= StopAt(cis, in)
      /\ cis.buffer_size_after_limit_ > 0 =>
           /\ ~LostAt(cis, in)
           /\ At(cis, in) + cis.buffer_size_ = StopAt(cis, in)
  BY <1>1, Standing
<1>3. cis.buffer_size_ \in Nat
  BY <1>1, CodedFields
<1>4. /\ SameEnds /\ lostBar' = lostBar /\ file' = file
      /\ cursorBar' = At(cis, in) + m
  BY <1>1, AdvanceBars
<1>5. ret'.op = "Skip" /\ ret'.n = n /\ ret'.ok = ok
  BY ReturnsOf
<1>6. CASE ok /\ m = n
  <2>1. n = 0 \/ (n > 0 /\ ~lostBar /\ cursorBar + n <= Cursors!Stop)
    <3> SUFFICES ASSUME n # 0
                 PROVE  n > 0 /\ ~lostBar /\ cursorBar + n <= Cursors!Stop
      OBVIOUS
    <3>1. n > 0 /\ cis.buffer_size_ > 0 /\ n <= cis.buffer_size_
      BY <1>3, <1>6
    <3>2. ~LostAt(cis, in) /\ At(cis, in) + cis.buffer_size_ <= StopAt(cis, in)
      BY <1>2, <3>1
    <3>3. At(cis, in) + n <= StopAt(cis, in)
      BY <1>2, <1>3, <3>1, <3>2
    <3> QED
      BY <1>1, <3>1, <3>2, <3>3
  <2>2. cursorBar' = cursorBar + n
    BY <1>1, <1>4, <1>6
  <2>4. Cursors!Skip
    BY <1>4, <1>5, <1>6, <2>1, <2>2, EndsKept DEF Cursors!Skip
  <2> QED
    BY <1>4, <2>4 DEF CallsCursor, Cursors!Call
<1>7. CASE /\ ~ok /\ n > m /\ m = cis.buffer_size_
           /\ cis.buffer_size_after_limit_ > 0
  <2>1. At(cis, in) + m = StopAt(cis, in) /\ m \in Nat
    BY <1>2, <1>3, <1>7
  <2>2. /\ ret'.n > Cursors!Stop - cursorBar
        /\ cursorBar' = IF cursorBar < Cursors!Stop THEN Cursors!Stop
                        ELSE cursorBar
    <3>1. /\ n > StopAt(cis, in) - At(cis, in)
          /\ At(cis, in) + m = IF At(cis, in) < StopAt(cis, in)
                               THEN StopAt(cis, in) ELSE At(cis, in)
      BY <1>2, <1>7, <2>1
    <3> QED
      BY <1>1, <1>4, <1>5, <3>1
  <2>3. Cursors!Fail
    BY <1>4, <1>5, <1>7, <2>2, EndsKept DEF Cursors!Fail
  <2> QED
    BY <1>4, <2>3 DEF CallsCursor, Cursors!Call
<1> QED
  BY <1>6, <1>7

\* A call of Skip() that goes on in the input, by m bytes of the n asked for.
LEMMA SkipGoesOn ==
  ASSUME WriterInv, CursorInv, CursorInv', SkipsExactly, UNCHANGED outVars,
         RetOK, Idle,
         UNCHANGED <<limits, call>>, cis.buffer_size_after_limit_ = 0,
         NEW n \in Nat, n > cis.buffer_size_,
         NEW m \in Nat, NEW o \in InSkip(in, m),
         cis' = Beyond(cis, m), in' = o.in,
         cis.total_bytes_read_ + m <= Closest(cis), ExactBy(in, m),
         NEW ok \in BOOLEAN, Returns("Skip", n, ok, <<>>),
         \/ /\ ~ok /\ m < n - cis.buffer_size_
            /\ cis.total_bytes_read_ + m = Closest(cis)
         \/ ok = o.ok /\ m = n - cis.buffer_size_
  PROVE  CallsCursor
<1> DEFINE size == cis.buffer_size_
           at == At(cis, in)
           moved == InByteCount(o.in) - InByteCount(in)
           lag == Lag(cis, in)
           next == At(cis', in')
           stop == StopAt(cis, in)
           bound == BoundAt(cis, in)
           near == cis.base + Closest(cis)
<1>1. /\ cis.open /\ call = NoCall /\ cursorBar = at
      /\ Cursors!Bound = bound /\ Cursors!Stop = stop
      /\ lostBar = LostAt(cis, in)
      /\ file \in Bytes /\ Held(cis, in) /\ CountOK(cis, in)
      /\ cis \in CodedInputs
  BY IdleBars
<1>2. /\ at \in Nat /\ stop \in Int /\ bound \in Int
      /\ stop <= bound /\ bound <= near
      /\ lag \in Int /\ lag >= 0
      /\ at = cis.base + Position(cis) - lag
  BY <1>1, Standing
<1>3. /\ size \in Nat /\ cis.base \in Nat /\ Closest(cis) \in Nat
      /\ cis.total_bytes_read_ \in Nat
  BY <1>1, CodedFields
<1>4. /\ Held(cis', in') /\ SameReader(cis, cis')
      /\ next = InByteCount(o.in)
      /\ Position(cis') = cis.total_bytes_read_ + m
      /\ Lag(cis', in') = lag + m - moved
      /\ at + size = InByteCount(in)
      /\ Position(cis) + size = cis.total_bytes_read_
      /\ InputOK(in, 0)
  BY <1>1, BeyondOf
<1>5. /\ o.ok \in BOOLEAN /\ o.in.limited = in.limited
      /\ o.in.seeks = in.seeks /\ o.in.short = in.short
      /\ o.in.failed_ = in.failed_
      /\ InByteCount(o.in) \in Int /\ InByteCount(o.in) >= InByteCount(in)
      /\ o.ok => /\ ~in.failed_
                 /\ InByteCount(o.in) = InByteCount(in) + m
                 /\ in.limited => EndOf(o.in) = EndOf(in)
      /\ InByteCount(o.in) <= InByteCount(in) + m
      /\ ~o.ok => \/ in.failed_
                  \/ InByteCount(o.in) < InByteCount(in) + m
                  \/ m = 0 /\ o.in = in
      /\ Dry(in) /\ o.ok => m = 0
  BY <1>1, <1>4, InSkipOf
<1>6. /\ InByteCount(in) \in Int /\ moved \in Int /\ 0 <= moved /\ moved <= m
      /\ next = at + size + moved
  <2>1. InByteCount(in) \in Int
    BY <1>1, HeldOf
  <2>2. /\ InByteCount(o.in) \in Int /\ InByteCount(o.in) >= InByteCount(in)
        /\ InByteCount(o.in) <= InByteCount(in) + m
    BY <1>5
  <2>3. next = InByteCount(o.in) /\ at + size = InByteCount(in)
    BY <1>4
  <2>4. at \in Nat /\ size \in Nat /\ m \in Nat
    BY <1>2, <1>3
  <2> DEFINE count == InByteCount(in)
             then == InByteCount(o.in)
  <2>5. /\ count \in Int /\ then \in Int /\ then >= count /\ then <= count + m
        /\ next = then /\ at + size = count /\ moved = then - count
    BY <2>1, <2>2, <2>3
  <2> HIDE DEF size, at, next, moved, count, then
  <2>6. moved \in Int /\ 0 <= moved /\ moved <= m
    BY <2>4, <2>5
  <2>7. next = at + size + moved
    BY <2>4, <2>5
  <2> QED
    BY <2>1, <2>6, <2>7
<1>7. cis'.open /\ file' = file
  BY <1>1, <1>4 DEF SameReader, outVars
<1>8. cursorBar' = next /\ lostBar' = LostAt(cis', in')
  BY <1>1, <1>4, <1>7, BarsNext
<1>9. CountOK(cis', in')
  <2>1. /\ <<in'.seeks, in'.short>> \in Descriptors
        /\ Exact(in') => CountOK(cis', in')
    <3>1. <<in'.seeks, in'.short>> \in Descriptors
      BY DEF CursorInv, ReaderInv
    <3>2. Exact(in)' => CountOK(cis, in)'
      BY DEF CursorInv
    <3>3. (Exact(in)' <=> Exact(in')) /\ (CountOK(cis, in)' <=> CountOK(cis', in'))
      BY <1>7 DEF Exact, CountOK, Lag, Dry, InByteCount
    <3> QED
      BY <3>1, <3>2, <3>3
  <2>2. Exact(in')
    BY <2>1 DEF SkipsExactly, Exact
  <2> QED
    BY <2>1, <2>2
<1>10. /\ BoundAt(cis', in') \in Int /\ next <= BoundAt(cis', in')
  BY <1>1, <1>4, <1>7, <1>9, Standing
<1>11. /\ LostAt(cis', in') <=> in.failed_ \/ lag + m - moved # 0
       /\ LostAt(cis, in) <=> in.failed_ \/ lag # 0
  BY <1>4, <1>5 DEF LostAt
<1> HIDE DEF size, at, moved, lag, next, stop, bound, near
<1>12. ASSUME ~lostBar'
       PROVE  /\ ~in.failed_ /\ lag = 0 /\ moved = m /\ ~lostBar
              /\ SameInput(in, in') /\ SameEnds /\ lostBar' = lostBar
              /\ next = cis.base + cis.total_bytes_read_ + m
              /\ next = at + size + m
              /\ next <= bound
  <2>1. ~in.failed_ /\ lag + m - moved = 0
    BY <1>8, <1>11, <1>12
  <2>2. lag = 0 /\ moved = m
    BY <1>2, <1>6, <2>1
  <2>3. ~lostBar
    BY <1>1, <1>11, <2>1, <2>2
  <2>4. SameInput(in, in')
    <3>1. in.limited => EndOf(o.in) = EndOf(in)
      <4>1. CASE o.ok
        BY <1>5, <4>1
      <4>2. CASE ~o.ok
        <5>1. o.in = in
          <6>1. ~(InByteCount(o.in) < InByteCount(in) + m)
            BY <1>5, <1>6, <2>2 DEF moved
          <6> QED
            BY <1>5, <2>1, <4>2, <6>1
        <5> QED
          BY <5>1
      <4> QED
        BY <1>5, <4>1, <4>2
    <3> QED
      BY <1>5, <3>1 DEF SameInput
  <2>5. SameEnds
    BY <1>1, <1>4, <1>7, <2>4 DEF SameEnds, SameReader
  <2>6. lostBar' = lostBar
    <3>1. lostBar' \in BOOLEAN /\ lostBar \in BOOLEAN
      BY DEF lostBar
    <3> QED
      BY <1>12, <2>3, <3>1
  <2>7. next = at + size + m /\ next = cis.base + cis.total_bytes_read_ + m
    <3>1. next = at + size + m
      BY <1>6, <2>2
    <3>2. at = cis.base + Position(cis) /\ Position(cis) \in Int
      <4>1. Position(cis) \in Int
        BY <1>1, CountsOf DEF Held
      <4> QED
        BY <1>2, <1>3, <2>2, <4>1
    <3>3. Position(cis) + size = cis.total_bytes_read_
      BY <1>4 DEF size
    <3>4. size \in Nat /\ m \in Nat /\ cis.base \in Nat
      BY <1>3
    <3> QED
      BY <3>1, <3>2, <3>3, <3>4
  <2>8. BoundAt(cis', in') = bound
    <3>1. Closest(cis') = Closest(cis) /\ cis'.base = cis.base
      BY <1>4 DEF SameReader, Closest
    <3>2. in'.limited = in.limited /\ (in.limited => EndOf(in') = EndOf(in))
      BY <2>4 DEF SameInput
    <3> QED
      BY <3>1, <3>2 DEF BoundAt, bound
  <2> QED
    BY <1>10, <2>1, <2>2, <2>3, <2>4, <2>5, <2>6, <2>7, <2>8
<1>13. ret'.op = "Skip" /\ ret'.n = n /\ ret'.ok = ok
  BY ReturnsOf
<1>14. n > size /\ cursorBar = at /\ cursorBar' = next
  BY <1>1, <1>8 DEF size
<1>15. /\ Len(file) \in Nat
       /\ bound <= Len(file) => stop = bound
       /\ ~(bound <= Len(file)) => stop = Len(file)
  BY <1>1 DEF stop, bound, StopAt, Least, Bytes
<1>16. CASE ok
  <2>1. o.ok /\ m + size = n /\ m > 0
    <3>1. o.ok /\ m = n - size
      BY <1>16 DEF size
    <3>2. size \in Nat /\ n > size
      BY <1>3, <1>14 DEF size
    <3> QED
      BY <3>1, <3>2
  <2>2. moved = m /\ lag = 0 /\ ~in.failed_
    <3>1. moved = m /\ ~in.failed_
      <4>1. InByteCount(o.in) = InByteCount(in) + m /\ ~in.failed_
        BY <1>5, <2>1
      <4> QED
        BY <1>6, <4>1 DEF moved
    <3>2. lag # 0 => Dry(in)
      BY <1>1 DEF CountOK, lag
    <3>3. lag = 0
      BY <1>5, <2>1, <3>2
    <3> QED
      BY <3>1, <3>3
  <2>3. ~lostBar'
    <3>1. lag + m - moved = 0
      BY <1>6, <2>2
    <3> QED
      BY <1>8, <1>11, <2>2, <3>1
  <2>4. /\ ~lostBar /\ SameEnds /\ lostBar' = lostBar
        /\ next = at + size + m /\ next <= bound
    BY <1>12, <2>3
  <2>5. next = at + n
    <3>1. at \in Nat /\ size \in Nat /\ m \in Int /\ n \in Int
      BY <1>2, <1>3
    <3> QED
      BY <2>1, <2>4, <3>1
  <2>6. n > 0 /\ at + n \in Int
    BY <1>2, <1>3, <1>14
  <2>7. CASE next <= stop
    <3>1. cursorBar + n <= Cursors!Stop /\ cursorBar' = cursorBar + n
      BY <1>1, <1>14, <2>5, <2>7
    <3>2. Cursors!Skip
      BY <1>13, <1>16, <2>4, <2>6, <3>1, EndsKept DEF Cursors!Skip
    <3> QED
      BY <1>7, <3>2 DEF CallsCursor, Cursors!Call
  <2>8. CASE ~(next <= stop)
    <3>1. next > Len(file)
      BY <1>15, <2>4, <2>5, <2>6, <2>8
    <3>2. ret'.n > Cursors!Stop - cursorBar
      BY <1>1, <1>2, <1>13, <1>14, <2>5, <2>6, <2>8
    <3>3. /\ cursorBar' > Len(file)
          /\ cursorBar' = cursorBar + ret'.n /\ cursorBar' <= Cursors!Bound
      BY <1>1, <1>13, <1>14, <2>4, <2>5, <3>1
    <3>4. Cursors!SkipBeyond
      BY <1>13, <1>16, <2>4, <3>2, <3>3, EndsKept DEF Cursors!SkipBeyond
    <3> QED
      BY <1>7, <3>4 DEF CallsCursor, Cursors!Call
  <2> QED
    BY <2>7, <2>8
<1>17. CASE ~ok
  <2>1. ~lostBar' => /\ m < n - size /\ cis.total_bytes_read_ + m = Closest(cis)
    <3> SUFFICES ASSUME ~lostBar', ~(/\ m < n - size
                                     /\ cis.total_bytes_read_ + m = Closest(cis))
                 PROVE  FALSE
      OBVIOUS
    <3>1. ~o.ok /\ m = n - size
      BY <1>17 DEF size
    <3>2. moved = m /\ ~in.failed_
      BY <1>12
    <3>3. m > 0
      BY <1>3, <1>14, <3>1
    <3>4. InByteCount(o.in) = InByteCount(in) + m
      BY <1>5, <1>6, <3>2 DEF moved
    <3>5. ~(InByteCount(o.in) < InByteCount(in) + m)
      BY <1>5, <3>4
    <3> QED
      BY <1>5, <3>1, <3>2, <3>3, <3>5
  <2>2. ~lostBar' => next = near /\ next = bound /\ n > stop - at
    <3> SUFFICES ASSUME ~lostBar'
                 PROVE  next = near /\ next = bound /\ n > stop - at
      OBVIOUS
    <3>1. /\ m < n - size /\ cis.total_bytes_read_ + m = Closest(cis)
      BY <2>1
    <3>2. /\ next = cis.base + cis.total_bytes_read_ + m
          /\ next = at + size + m /\ next <= bound
      BY <1>12
    <3>3. next = near
      BY <1>3, <3>1, <3>2 DEF near
    <3>4. near \in Int
      BY <1>3 DEF near
    <3>5. next = bound
      BY <1>2, <3>2, <3>3, <3>4
    <3>6. at \in Nat /\ size \in Nat /\ m \in Int /\ n \in Int /\ stop \in Int /\ stop <= bound
      BY <1>2, <1>3
    <3>7. next = at + size + m /\ m < n - size
      BY <3>1, <3>2
    <3>8. n > stop - at
      BY <3>5, <3>6, <3>7
    <3> QED
      BY <3>3, <3>5, <3>8
  <2>3. next >= at
    BY <1>2, <1>3, <1>6
  <2>4. ~lostBar' => /\ ret'.n > Cursors!Stop - cursorBar
                     /\ cursorBar' = Cursors!Bound
    BY <1>1, <1>13, <1>14, <2>2
  <2>5. ~lostBar' => SameEnds /\ lostBar' = lostBar
    BY <1>12
  <2>6. cursorBar' >= cursorBar
    BY <1>14, <2>3
  <2>7. CASE lostBar'
    <3>1. Cursors!Fail
      BY <1>13, <1>17, <2>6, <2>7 DEF Cursors!Fail
    <3> QED
      BY <1>7, <3>1 DEF CallsCursor, Cursors!Call
  <2>8. CASE ~lostBar' /\ bound <= Len(file)
    <3>1. stop = bound /\ next = bound /\ next >= at
      BY <1>15, <2>2, <2>3, <2>8
    <3>2. next = IF at < stop THEN stop ELSE at
      BY <1>2, <3>1
    <3>3. cursorBar' = IF cursorBar < Cursors!Stop THEN Cursors!Stop ELSE cursorBar
      BY <1>1, <1>14, <3>2
    <3>4. Cursors!Fail
      BY <1>13, <1>17, <2>4, <2>5, <2>8, <3>3, EndsKept DEF Cursors!Fail
    <3> QED
      BY <1>7, <3>4 DEF CallsCursor, Cursors!Call
  <2>9. CASE ~lostBar' /\ ~(bound <= Len(file))
    <3>1. cursorBar' > Len(file)
      BY <1>1, <1>2, <1>15, <2>4, <2>9
    <3>2. ~lostBar
      BY <1>12, <2>9
    <3>3. Cursors!SkipBeyond
      BY <1>13, <1>17, <2>4, <2>5, <2>9, <3>1, <3>2, EndsKept DEF Cursors!SkipBeyond
    <3> QED
      BY <1>7, <3>3 DEF CallsCursor, Cursors!Call
  <2> QED
    BY <2>7, <2>8, <2>9
<1> QED
  BY <1>16, <1>17

LEMMA SkipSteps ==
  ASSUME WriterInv, CursorInv, CursorInv', SkipsExactly, UNCHANGED outVars,
         RetOK, NEW n \in Sizes, Skip(n)
  PROVE  CallsCursor
<1>1. /\ Idle /\ UNCHANGED <<limits, call>> /\ cis.buffer_size_ \in Nat
  BY SkipCases
<1>2. ASSUME n < 0, Returns("Skip", n, FALSE, <<>>), cis' = cis, in' = in
      PROVE  CallsCursor
  <2>1. n \in Int /\ "Skip" \in {"Read", "Skip"}
    BY SizesAssumption
  <2> QED
    BY <1>1, <1>2, <2>1, RefusedSteps
<1>3. ASSUME n \in 0 .. cis.buffer_size_, Returns("Skip", n, TRUE, <<>>),
             cis' = Advance(cis, n), in' = in
      PROVE  CallsCursor
  <2>1. PICK ok \in BOOLEAN : ok = TRUE
    OBVIOUS
  <2>2. n \in Nat
    BY <1>1, <1>3
  <2> QED
    BY <1>1, <1>3, <2>1, <2>2, SkipAdvances
<1>4. ASSUME n > cis.buffer_size_, cis.buffer_size_after_limit_ > 0,
             Returns("Skip", n, FALSE, <<>>),
             cis' = Advance(cis, cis.buffer_size_), in' = in
      PROVE  CallsCursor
  <2>1. PICK ok \in BOOLEAN : ok = FALSE
    OBVIOUS
  <2>2. n \in Nat
    BY <1>1, <1>4, SizesAssumption
  <2>3. PICK m \in 0 .. cis.buffer_size_ : m = cis.buffer_size_
    BY <1>1
  <2>4. ~ok /\ n > m /\ m = cis.buffer_size_
    BY <1>4, <2>1, <2>3
  <2>5. cis' = Advance(cis, m) /\ Returns("Skip", n, ok, <<>>)
    BY <1>4, <2>1, <2>3
  <2> QED
    BY <1>1, <1>4, <2>2, <2>4, <2>5, SkipAdvances
<1>5. ASSUME n > cis.buffer_size_, cis.buffer_size_after_limit_ = 0,
             NEW m \in Nat, NEW o \in InSkip(in, m),
             cis' = Beyond(cis, m), in' = o.in,
             cis.total_bytes_read_ + m <= Closest(cis),
             Exact(in) => ExactBy(in, m),
             \/ /\ m < n - cis.buffer_size_
                /\ cis.total_bytes_read_ + m = Closest(cis)
                /\ Returns("Skip", n, FALSE, <<>>)
             \/ /\ m = n - cis.buffer_size_
                /\ Returns("Skip", n, o.ok, <<>>)
      PROVE  CallsCursor
  <2>1. n \in Nat
    BY <1>1, <1>5, SizesAssumption
  <2>2. ExactBy(in, m)
    BY <1>5, ExactHere
  <2>3. o.ok \in BOOLEAN
    <3>1. file \in Bytes /\ Held(cis, in)
      BY <1>1, IdleBars
    <3>2. InputOK(in, 0)
      BY <1>5, <3>1, BeyondOf
    <3> QED
      BY <3>1, <3>2, InSkipOf
  <2>4. CASE /\ m < n - cis.buffer_size_
             /\ cis.total_bytes_read_ + m = Closest(cis)
             /\ Returns("Skip", n, FALSE, <<>>)
    <3>1. PICK ok \in BOOLEAN : ok = FALSE
      OBVIOUS
    <3>2. /\ ~ok /\ m < n - cis.buffer_size_
          /\ cis.total_bytes_read_ + m = Closest(cis)
      BY <2>4, <3>1
    <3>3. Returns("Skip", n, ok, <<>>)
      BY <2>4, <3>1
    <3> QED
      BY <1>1, <1>5, <2>1, <2>2, <3>2, <3>3, SkipGoesOn
  <2>5. CASE m = n - cis.buffer_size_ /\ Returns("Skip", n, o.ok, <<>>)
    <3>1. PICK ok \in BOOLEAN : ok = o.ok
      BY <2>3
    <3>2. ok = o.ok /\ m = n - cis.buffer_size_
      BY <2>5, <3>1
    <3>3. Returns("Skip", n, ok, <<>>)
      BY <2>5, <3>1
    <3> QED
      BY <1>1, <1>5, <2>1, <2>2, <3>2, <3>3, SkipGoesOn
  <2> QED
    BY <1>5, <2>4, <2>5
<1> QED
  BY <1>2, <1>3, <1>4, <1>5, SkipCases, Zenon

\* Without a reader, the input stands where the cursor is.
LEMMA NoReaderBars ==
  ASSUME CursorInv, ~cis.open
  PROVE  /\ cursorBar = InByteCount(in) /\ limitsBar = <<>>
         /\ InputOK(in, 0) /\ call = NoCall /\ cis = NoStream
<1>1. /\ cis = NoStream /\ call = NoCall /\ InputOK(in, 0)
      /\ At(cis, in) = InByteCount(in)
  BY NoReaderOf
<1> QED
  BY <1>1 DEF cursorBar, Cursor, At, limitsBar

LEMMA ExchangeSteps ==
  ASSUME WriterInv, CursorInv, CursorInv', UNCHANGED outVars, RetOK,
         \/ Construct \/ Destruct \/ UnlimitInput
         \/ \E n \in InputLimits : LimitInput(n)
  PROVE  Cursors!Exchange /\ UNCHANGED file
<1>0. file' = file
  BY DEF outVars
<1>1. ASSUME cursorBar' = cursorBar, Len(limitsBar') <= 1,
             ret'.op \in {"Construct", "Destruct", "UnlimitInput"}
      PROVE  Cursors!Exchange
  BY <1>1 DEF Cursors!Exchange
<1>2. ~cis'.open => cursorBar' = InByteCount(in') /\ limitsBar' = <<>>
  <2>1. ~cis'.open => cis' = NoStream /\ call' = NoCall
    BY DEF CursorInv, ReaderInv
  <2>2. InByteCount(in') \in Nat /\ NoStream.buffer_ = <<>> /\ Len(<<>>) = 0
    <3>1. Held(cis', in')
      BY <1>0 DEF CursorInv, ReaderInv, Held, InputOK, Loaded, Holds
    <3> QED
      BY <1>0, <3>1, NoStreamOf, ReaderState, HeldOf
  <2>3. ASSUME ~cis'.open PROVE cursorBar' = InByteCount(in')
    BY <2>1, <2>2, <2>3 DEF cursorBar, Cursor
  <2> QED
    BY <2>3 DEF limitsBar
<1>3. Len(<<>>) <= 1
  OBVIOUS
<1>4. CASE Construct
  <2>1. /\ ~cis.open /\ cis' = NewStream(InByteCount(in)) /\ in' = in
        /\ call' = call /\ limits' = limits /\ ret'.op = "Construct"
    BY <1>4 DEF Construct
  <2>2. /\ cursorBar = InByteCount(in) /\ call = NoCall /\ limits = <<>>
        /\ InputOK(in, 0)
    BY <2>1, NoReaderBars, NoReaderOf
  <2>3. InByteCount(in) \in Nat
    BY ReaderState, HeldOf
  <2>4. /\ cis'.open = TRUE /\ cis'.buffer_ = <<>>
    BY <2>1, <2>3, FreshStream DEF NewStream
  <2>5. cursorBar' = cursorBar
    BY <2>1, <2>2, <2>3, <2>4, EmptyBytes DEF cursorBar, Cursor
  <2>6. Len(limitsBar') <= 1
    <3>1. limitsBar' = [i \in 1 .. Len(<<>>) + 1 |->
              cis'.base + Append(<<>>, cis'.current_limit_)[i]]
      BY <2>1, <2>2, <2>4 DEF limitsBar
    <3>2. DOMAIN limitsBar' = 1 .. 1
      BY <3>1
    <3> QED
      BY <3>1, <3>2
  <2> QED
    BY <1>0, <1>1, <2>1, <2>5, <2>6
<1>5. CASE Destruct
  <2>1. /\ cis' = NoStream /\ InByteCount(in') = At(cis, in)
        /\ cis.open
    BY <1>5, DestructOf
  <2>2. cursorBar = At(cis, in)
    <3>1. call = NoCall
      BY <1>5 DEF Destruct, AtOnce, Idle
    <3> QED
      BY <3>1 DEF cursorBar, Cursor, At
  <2>3. ret'.op = "Destruct"
    BY <1>5, ReturnsOf DEF Destruct, AtOnce
  <2> QED
    BY <1>0, <1>1, <1>2, <1>3, <2>1, <2>2, <2>3, NoStreamOf
<1>6. CASE UnlimitInput
  <2>1. ~cis.open /\ in' = Unlimited(in) /\ UNCHANGED <<cis, limits, call>>
    BY <1>6 DEF UnlimitInput
  <2>2. cursorBar = InByteCount(in) /\ InputOK(in, 0)
    BY <2>1, NoReaderBars
  <2>3. InByteCount(in') = InByteCount(in)
    BY <2>1, <2>2, UnlimitedOf
  <2>4. ret'.op = "UnlimitInput"
    BY <1>6, ReturnsOf DEF UnlimitInput
  <2> QED
    BY <1>0, <1>1, <1>2, <1>3, <2>1, <2>2, <2>3, <2>4
<1>7. CASE \E n \in InputLimits : LimitInput(n)
  <2>1. PICK n \in InputLimits : LimitInput(n)
    BY <1>7
  <2>2. /\ ~cis.open /\ ~in.limited /\ in' = Limited(in, n)
        /\ UNCHANGED <<cis, limits, call>>
        /\ Returns("LimitInput", n, TRUE, <<>>)
    BY <2>1 DEF LimitInput
  <2>3. cursorBar = InByteCount(in) /\ InputOK(in, 0)
    BY <2>2, NoReaderBars
  <2>4. n \in Nat
    BY InputsAssumption
  <2>5. /\ InByteCount(in') = InByteCount(in) /\ in'.limited = TRUE
        /\ EndOf(in') = InByteCount(in) + n
    BY <2>2, <2>3, <2>4, LimitedOf
  <2>6. cursorBar' = cursorBar /\ limitsBar' = <<>>
    BY <1>2, <2>2, <2>3, <2>5
  <2>7. endBar' = cursorBar + n
    BY <2>3, <2>5 DEF endBar, EndOf
  <2>8. ret'.op = "LimitInput" /\ ret'.n = n
    BY <2>2, ReturnsOf
  <2> QED
    BY <1>0, <1>3, <2>6, <2>7, <2>8 DEF Cursors!Exchange
<1> QED
  BY <1>4, <1>5, <1>6, <1>7

\* Every call leaves a result.
LEMMA ResultsKept ==
  ASSUME RetOK, ReaderNext
  PROVE  RetOK'
<1>1. ASSUME ret' = ret PROVE RetOK'
  BY <1>1 DEF RetOK
<1>2. ASSUME NEW ok, NEW bytes, NEW c, Return(ok, bytes, c) PROVE RetOK'
  BY <1>2, ReturnsOf DEF Return
<1>3. ASSUME NEW op, NEW n, NEW ok, NEW bytes, NEW c,
             AtOnce(op, n, ok, bytes, c)
      PROVE  RetOK'
  BY <1>3, ReturnsOf DEF AtOnce
<1>4. ASSUME NEW op, NEW stage, NEW n, Begin(op, stage, n) PROVE RetOK'
  BY <1>4 DEF Begin, NoResult, RetOK
<1>5. CASE Construct
  BY <1>5 DEF Construct, RetOK
<1>6. CASE Destruct \/ PopLimit \/ ExpectAtEnd
  BY <1>3, <1>6, Zenon DEF Destruct, PopLimit, ExpectAtEnd
<1>7. CASE UnlimitInput
  BY <1>7, ReturnsOf DEF UnlimitInput
<1>8. CASE ReadVarint64 \/ ReadTag
  BY <1>4, <1>8, Zenon DEF ReadVarint64, ReadTag
<1>9. CASE \E n \in InputLimits : LimitInput(n)
  BY <1>9, ReturnsOf DEF LimitInput
<1>10. CASE \E n \in LimitSizes : PushLimit(n)
  BY <1>3, <1>10, Zenon DEF PushLimit
<1>11. CASE \E n \in TotalLimits : SetTotalBytesLimit(n)
  BY <1>3, <1>11, Zenon DEF SetTotalBytesLimit
<1>12. CASE \E n \in Sizes : ReadRaw(n) \/ ReadString(n) \/ Skip(n)
  <2>1. PICK n \in Sizes : ReadRaw(n) \/ ReadString(n) \/ Skip(n)
    BY <1>12
  <2>2. CASE ReadRaw(n)
    BY <1>4, <2>2, Zenon DEF ReadRaw
  <2>3. CASE ReadString(n)
    BY <1>3, <1>4, <2>3, Zenon DEF ReadString
  <2>4. CASE Skip(n)
    BY <1>3, <2>4, Zenon DEF Skip
  <2> QED
    BY <2>1, <2>2, <2>3, <2>4
<1>13. CASE \E k \in 0 .. 2 : ExpectTag(k)
  BY <1>3, <1>13, Zenon DEF ExpectTag
<1>14. CASE CopyOut
  BY <1>1, <1>2, <1>14, Zenon DEF CopyOut
<1>15. CASE AtVarint
  BY <1>1, <1>2, <1>15, Zenon DEF AtVarint
<1>16. CASE FastVarint
  BY <1>2, <1>16, Zenon DEF FastVarint
<1>17. CASE SlowVarint
  BY <1>1, <1>17, Zenon DEF SlowVarint
<1>18. CASE VarintByte
  BY <1>1, <1>2, <1>18, Zenon DEF VarintByte
<1> QED
  BY <1>5, <1>6, <1>7, <1>8, <1>9, <1>10, <1>11, <1>12, <1>13, <1>14, <1>15,
     <1>16, <1>17, <1>18, Zenon DEF ReaderNext

\* A step of a reader is a call of ByteCursor, or none.
LEMMA ReaderCalls ==
  ASSUME WriterInv, CursorInv, CursorInv', SkipsExactly, UNCHANGED outVars,
         RetOK, ReaderNext
  PROVE  CallsCursor
<1>1. CASE \/ Construct \/ Destruct \/ UnlimitInput
           \/ \E n \in InputLimits : LimitInput(n)
  BY <1>1, ExchangeSteps DEF CallsCursor, Cursors!Call
<1>2. CASE PopLimit
  BY <1>2, PopLimitSteps
<1>3. CASE ReadVarint64 \/ ReadTag
  BY <1>3, BeginSteps DEF ReadVarint64, ReadTag, CallsCursor, Cursors!Call
<1>4. CASE ExpectAtEnd
  BY <1>4, ExpectAtEndSteps
<1>5. CASE \E n \in LimitSizes : PushLimit(n)
  BY <1>5, PushLimitSteps
<1>6. CASE \E n \in TotalLimits : SetTotalBytesLimit(n)
  BY <1>6, SetTotalSteps
<1>7. CASE \E n \in Sizes : ReadRaw(n) \/ ReadString(n)
  <2>1. PICK n \in Sizes : ReadRaw(n) \/ ReadString(n)
    BY <1>7
  <2>2. CASE Begin("Read", "copy", n)
    BY <2>2, BeginSteps DEF CallsCursor, Cursors!Call
  <2>3. CASE n < 0 /\ AtOnce("Read", n, FALSE, <<>>, cis) /\ UNCHANGED <<in, limits>>
    <3>1. n \in Int /\ "Read" \in {"Read", "Skip"}
      BY SizesAssumption
    <3>2. /\ Idle /\ n < 0 /\ Returns("Read", n, FALSE, <<>>)
          /\ UNCHANGED <<in, cis, limits, call>>
      BY <2>3 DEF AtOnce
    <3> QED
      BY <3>1, <3>2, RefusedSteps
  <2> QED
    BY <2>1, <2>2, <2>3 DEF ReadRaw, ReadString
<1>8. CASE \E n \in Sizes : Skip(n)
  BY <1>8, SkipSteps
<1>9. CASE \E k \in 0 .. 2 : ExpectTag(k)
  BY <1>9, ExpectTagSteps
<1>10. CASE CopyOut
  BY <1>10, CopyOutSteps
<1>11. CASE AtVarint
  BY <1>11, AtVarintSteps
<1>12. CASE FastVarint
  BY <1>12, FastVarintSteps
<1>13. CASE SlowVarint
  BY <1>13, SlowVarintSteps
<1>14. CASE VarintByte
  BY <1>14, VarintByteSteps
<1> QED
  BY <1>1, <1>2, <1>3, <1>4, <1>5, <1>6, <1>7, <1>8, <1>9, <1>10, <1>11,
     <1>12, <1>13, <1>14, Zenon DEF ReaderNext

\* Until a reader comes the cursor is at the beginning, whatever the file holds.
LEMMA UntouchedBars ==
  ASSUME Untouched
  PROVE  cursorBar = 0 /\ limitsBar = <<>> /\ ~lostBar
<1>1. /\ in \in {FileInputStream(d[1], d[2]) : d \in Descriptors}
      /\ cis = NoStream /\ limits = <<>> /\ call = NoCall
  BY DEF Untouched
<1>2. InByteCount(in) = 0 /\ ~in.failed_
  BY <1>1, FreshInput
<1>3. cis.open = FALSE /\ cis.buffer_ = <<>>
  BY <1>1, NoStreamOf
<1>4. cursorBar = 0
  <2>1. Len(cis.buffer_) = 0
    BY <1>3, EmptyBytes
  <2>2. cursorBar = InByteCount(in) - Len(cis.buffer_)
    BY <1>1 DEF cursorBar, Cursor
  <2> QED
    BY <1>2, <2>1, <2>2
<1> QED
  BY <1>2, <1>3, <1>4 DEF limitsBar, lostBar

LEMMA CursorStepped ==
  ASSUME WriterInv, CursorInv, CursorInv', RetOK, SkipsExactly, [Next]_vars
  PROVE  /\ [Cursors!Grow \/ (Cursors!Call /\ UNCHANGED file)]_(Cursors!vars)
         /\ RetOK'
<1>1. CASE closed = "gone" /\ ReaderNext /\ UNCHANGED outVars
  BY <1>1, ReaderCalls, ResultsKept DEF CallsCursor
<1>2. CASE WriterNext /\ UNCHANGED inVars
  <2>1. Untouched
    BY <1>2, WritingKeeps
  <2>2. in' = in /\ cis' = cis /\ limits' = limits /\ call' = call /\ ret' = ret
    BY <1>2 DEF inVars
  <2>3. Cursors!Grow
    BY <2>1, <2>2, UntouchedBars
       DEF Cursors!Grow, cursorBar, Cursor, endBar, limitsBar, lostBar, InByteCount
  <2> QED
    BY <2>2, <2>3 DEF RetOK
<1>3. CASE UNCHANGED vars
  <2>1. /\ in' = in /\ cis' = cis /\ limits' = limits /\ call' = call
        /\ ret' = ret /\ file' = file
    BY <1>3 DEF vars, inVars, outVars
  <2>2. UNCHANGED Cursors!vars
    BY <2>1 DEF Cursors!vars, cursorBar, Cursor, endBar, limitsBar, lostBar,
                InByteCount
  <2> QED
    BY <2>1, <2>2 DEF RetOK
<1> QED
  BY <1>1, <1>2, <1>3 DEF Next

\* If no skip leaps, the readers implement ByteCursor: whatever the sizes of
\* blocks and reads, and however calls, limits and readers follow one another,
\* the bytes of the file are delivered in order, none twice and none left out, no
\* limit is passed, and a call that fails had too little left
\* (CodedInputStream, CopyingInputStreamAdaptor, LimitingInputStream).
THEOREM CursorImplemented ==
  ASSUME SkipsExactly
  PROVE  Spec => ImplementsCursor
<1>1. Init => Cursors!Init /\ RetOK
  <2>1. Init => Untouched
    BY DEF Init, InInit, Untouched
  <2>2. Init => RetOK
    BY DEF Init, InInit, NoResult, RetOK
  <2> QED
    BY <2>1, <2>2, UntouchedBars DEF Cursors!Init
<1>2. /\ WriterInv /\ CursorInv /\ CursorInv' /\ RetOK /\ [Next]_vars
      => /\ [Cursors!Grow \/ (Cursors!Call /\ UNCHANGED file)]_(Cursors!vars)
         /\ RetOK'
  BY CursorStepped
<1> QED
  BY <1>1, <1>2, WriterInvariant, ReaderInvariant, PTL
     DEF Spec, ImplementsCursor, Cursors!Spec

\* If no skip leaps, a reader never consumes more of its input than it was asked to
\* and counts itself (CopyingInputStream::Skip, zero_copy_stream_impl.h:165).
THEOREM NothingLeapt ==
  ASSUME SkipsExactly
  PROVE  Spec => []NothingSkippedUnasked
<1>1. WriterInv /\ CursorInv => NothingSkippedUnasked
  BY CountedOK
<1> QED
  BY <1>1, WriterInvariant, ReaderInvariant, PTL
-----------------------------------------------------------------------------
(* The end of a message *)

\* What EndIsNoticed says of a step that notes an end.
MessageEnds ==
  /\ cursorBar' = cursorBar
  /\ \/ MayEnd \/ lostBar'
     \/ ret'.op = "ExpectAtEnd" /\ cursorBar >= cis.base + cis.total_bytes_limit_

LEMMA EndKept ==
  ASSUME NEW c \in CodedInputs, NEW n
  PROVE  /\ Advance(c, n).legitimate_message_end_ = c.legitimate_message_end_
         /\ Beyond(c, n).legitimate_message_end_ = c.legitimate_message_end_
         /\ RecomputeBufferLimits(c).legitimate_message_end_
              = c.legitimate_message_end_
<1>1. Advance(c, n).legitimate_message_end_ = c.legitimate_message_end_
  BY DEF Advance, CodedInputs
<1>2. Beyond(c, n).legitimate_message_end_ = c.legitimate_message_end_
  BY DEF Beyond, CodedInputs
<1>3. RecomputeBufferLimits(c).legitimate_message_end_
        = c.legitimate_message_end_
  <2> DEFINE after == Greatest(0, c.total_bytes_read_ - Closest(c))
             size == c.buffer_size_ + c.buffer_size_after_limit_ - after
  <2>1. RecomputeBufferLimits(c)
          = [c EXCEPT !.buffer_size_after_limit_ = after, !.buffer_size_ = size]
    BY DEF RecomputeBufferLimits, CodedInputs
  <2> HIDE DEF after, size
  <2> QED
    BY <2>1 DEF CodedInputs
<1> QED
  BY <1>1, <1>2, <1>3

\* A call that sets a limit counts the buffer anew, and that is all.
LEMMA LimitsSet ==
  ASSUME WriterInv, CursorInv,
         \/ PopLimit
         \/ \E n \in LimitSizes : PushLimit(n)
         \/ \E n \in TotalLimits : SetTotalBytesLimit(n)
  PROVE  /\ Idle /\ in' = in /\ call' = call
         /\ RetOK => ret'.op \in {"PopLimit", "PushLimit",
                                  "SetTotalBytesLimit"}
         /\ \E e \in CodedInputs :
              /\ SameCounts(cis, e) /\ cis' = RecomputeBufferLimits(e)
              /\ e.legitimate_message_end_ => cis.legitimate_message_end_
<1>0. cis \in CodedInputs
  BY ReaderState
<1>1. CASE PopLimit
  <2> DEFINE outer == limits[Len(limits)]
             e == [cis EXCEPT !.current_limit_ = outer,
                              !.legitimate_message_end_ = FALSE]
  <2>1. /\ cis' = RecomputeBufferLimits(e) /\ limits # <<>>
        /\ Idle /\ in' = in /\ call' = call
        /\ RetOK => ret'.op = "PopLimit"
    BY <1>1, ReturnsOf, Zenon DEF PopLimit, AtOnce
  <2>2. outer \in Nat
    <3> DEFINE S == 0 .. IntMax
    <3>1. limits \in Seq(S)
      BY ReaderState DEF LimitsOK
    <3>2. S \subseteq Nat
      BY IntMaxAssumption
    <3> HIDE DEF S
    <3>3. Len(limits) \in 1 .. Len(limits)
      BY <2>1, <3>1
    <3>4. outer \in S
      BY <3>1, <3>3
    <3> QED
      BY <3>2, <3>4
  <2> HIDE DEF outer
  <2>3. /\ e \in CodedInputs /\ SameCounts(cis, e)
        /\ e.legitimate_message_end_ = FALSE
    BY <1>0, <2>2 DEF CodedInputs, SameCounts
  <2> HIDE DEF e
  <2> QED
    BY <2>1, <2>3
<1>2. CASE \E n \in LimitSizes : PushLimit(n)
  <2>1. PICK n \in LimitSizes : PushLimit(n)
    BY <1>2
  <2> DEFINE wanted == IF n >= 0 /\ n <= IntMax - Position(cis)
                       THEN Position(cis) + n ELSE IntMax
             inner == Least(wanted, cis.current_limit_)
             e == [cis EXCEPT !.current_limit_ = inner]
  <2>2. /\ cis' = RecomputeBufferLimits(
                    [cis EXCEPT !.current_limit_ = Least(wanted, @)])
        /\ Idle /\ in' = in /\ call' = call
        /\ RetOK => ret'.op = "PushLimit"
    BY <2>1, ReturnsOf, Zenon DEF PushLimit, AtOnce
  <2> HIDE DEF wanted
  <2>3. cis' = RecomputeBufferLimits(e)
    BY <1>0, <2>2 DEF CodedInputs
  <2>4. inner \in Nat
    <3>1. Position(cis) \in Nat /\ n \in Int /\ IntMax \in Nat
      BY CountsOf, ReaderState, SizesAssumption, IntMaxAssumption
    <3>2. wanted \in Nat
      BY <3>1 DEF wanted
    <3>3. cis.current_limit_ \in Nat
      BY <1>0, CodedFields
    <3> QED
      BY <3>2, <3>3 DEF Least
  <2> HIDE DEF inner
  <2>5. /\ e \in CodedInputs /\ SameCounts(cis, e)
        /\ e.legitimate_message_end_ = cis.legitimate_message_end_
    BY <1>0, <2>4 DEF CodedInputs, SameCounts
  <2> HIDE DEF e
  <2> QED
    BY <2>2, <2>3, <2>5
<1>3. CASE \E n \in TotalLimits : SetTotalBytesLimit(n)
  <2>1. PICK n \in TotalLimits : SetTotalBytesLimit(n)
    BY <1>3
  <2> DEFINE most == Greatest(Position(cis), n)
             e == [cis EXCEPT !.total_bytes_limit_ = most]
  <2>2. /\ cis' = RecomputeBufferLimits(e)
        /\ Idle /\ in' = in /\ call' = call
        /\ RetOK => ret'.op = "SetTotalBytesLimit"
    BY <2>1, ReturnsOf, Zenon DEF SetTotalBytesLimit, AtOnce
  <2>3. most \in Nat
    <3>1. Position(cis) \in Nat /\ n \in Nat
      BY CountsOf, ReaderState, TotalLimitsAssumption, IntMaxAssumption
    <3> QED
      BY <3>1 DEF Greatest
  <2> HIDE DEF most
  <2>4. /\ e \in CodedInputs /\ SameCounts(cis, e)
        /\ e.legitimate_message_end_ = cis.legitimate_message_end_
    BY <1>0, <2>3 DEF CodedInputs, SameCounts
  <2> HIDE DEF e
  <2> QED
    BY <2>2, <2>4
<1> QED
  BY <1>1, <1>2, <1>3

\* Only a call that looks for the end notes it.
LEMMA EndUnnoted ==
  ASSUME WriterInv, CursorInv, ReaderNext, ~AtVarint, ~ExpectAtEnd
  PROVE  ~NotesEnd
<1> USE DEF NotesEnd
<1>0. file \in Bytes /\ Held(cis, in) /\ cis \in CodedInputs
  BY ReaderState
<1>1. ASSUME cis' = cis PROVE ~NotesEnd
  BY <1>1
<1>2. ASSUME NEW n, cis' = Advance(cis, n) PROVE ~NotesEnd
  BY <1>0, <1>2, EndKept
<1>3. ASSUME NEW o \in Refresh(cis), cis' = o.c PROVE ~NotesEnd
  BY <1>0, <1>3, RefreshOf DEF SameReader
<1>4. ASSUME NEW e \in CodedInputs, cis' = RecomputeBufferLimits(e),
             e.legitimate_message_end_ => cis.legitimate_message_end_
      PROVE  ~NotesEnd
  BY <1>4, EndKept
<1>5. CASE Construct
  BY <1>5 DEF Construct, NewStream
<1>6. CASE Destruct
  BY <1>6 DEF Destruct, AtOnce, NoStream, NewStream
<1>7. CASE UnlimitInput \/ \E n \in InputLimits : LimitInput(n)
  BY <1>1, <1>7 DEF UnlimitInput, LimitInput
<1>8. CASE \/ PopLimit
           \/ \E n \in LimitSizes : PushLimit(n)
           \/ \E n \in TotalLimits : SetTotalBytesLimit(n)
  <2>1. PICK e \in CodedInputs :
          /\ cis' = RecomputeBufferLimits(e)
          /\ e.legitimate_message_end_ => cis.legitimate_message_end_
    BY <1>8, LimitsSet
  <2> QED
    BY <1>4, <2>1
<1>9. CASE ReadVarint64 \/ ReadTag
  BY <1>1, <1>9 DEF ReadVarint64, ReadTag, Begin
<1>10. CASE \E n \in Sizes : ReadRaw(n) \/ ReadString(n)
  BY <1>1, <1>10 DEF ReadRaw, ReadString, Begin, AtOnce
<1>11. CASE \E n \in Sizes : Skip(n)
  <2>1. \/ cis' = cis
        \/ \E k : cis' = Advance(cis, k)
        \/ \E k : cis' = Beyond(cis, k)
    BY <1>11, SkipCases, Zenon
  <2>2. ASSUME NEW k, cis' = Beyond(cis, k) PROVE ~NotesEnd
    BY <1>0, <2>2, EndKept
  <2> QED
    BY <1>1, <1>2, <2>1, <2>2
<1>12. CASE \E k \in 0 .. 2 : ExpectTag(k)
  BY <1>2, <1>12, Zenon DEF ExpectTag, AtOnce
<1>13. CASE CopyOut
  BY <1>2, <1>3, <1>13, Zenon DEF CopyOut, Return
<1>14. CASE FastVarint
  BY <1>2, <1>14, Zenon DEF FastVarint, Return
<1>15. CASE SlowVarint
  BY <1>1, <1>15, Zenon DEF SlowVarint
<1>16. CASE VarintByte
  BY <1>1, <1>2, <1>3, <1>16, Zenon DEF VarintByte, Return
<1> HIDE DEF NotesEnd
<1> QED
  BY <1>5, <1>6, <1>7, <1>8, <1>9, <1>10, <1>11, <1>12, <1>13,
     <1>14, <1>15, <1>16, Zenon DEF ReaderNext

\* Where the buffer is empty but for bytes beyond a limit, a reader that has not
\* lost count stands at the nearest limit.
LEMMA LimitReached ==
  ASSUME WriterInv, CursorInv, cis.open, cis.buffer_size_ = 0,
         cis.buffer_size_after_limit_ > 0
  PROVE  /\ Position(cis) = Closest(cis)
         /\ lostBar \/ At(cis, in) = cis.base + Closest(cis)
<1>1. /\ lostBar = LostAt(cis, in)
      /\ file \in Bytes /\ Held(cis, in) /\ cis \in CodedInputs
  BY Bars, ReaderState
<1>2. Position(cis) = Closest(cis)
  <2>1. Position(cis) \in Nat /\ Position(cis) + cis.buffer_size_ = Closest(cis)
    BY <1>1, CountsOf DEF Held
  <2> QED
    BY <2>1
<1>3. CASE Lag(cis, in) # 0
  BY <1>1, <1>2, <1>3 DEF LostAt
<1>4. CASE Lag(cis, in) = 0
  <2>1. CountOK(cis, in)
    BY <1>4 DEF CountOK
  <2>2. At(cis, in) = cis.base + Position(cis) - Lag(cis, in)
    BY <1>1, <2>1, Standing
  <2>3. cis.base \in Nat /\ Closest(cis) \in Nat
    BY <1>1, CodedFields
  <2> QED
    BY <1>2, <1>4, <2>2, <2>3
<1> QED
  BY <1>3, <1>4

LEMMA ExpectAtEndNotes ==
  ASSUME WriterInv, CursorInv, RetOK, ExpectAtEnd, NotesEnd, UNCHANGED outVars
  PROVE  MessageEnds
<1> DEFINE hit == cis.buffer_size_ = 0 /\ cis.buffer_size_after_limit_ # 0
           b == cis.legitimate_message_end_ \/ hit
<1>1. /\ Idle /\ in' = in /\ call' = call /\ ret'.op = "ExpectAtEnd"
      /\ cis' = [cis EXCEPT !.legitimate_message_end_ = b]
  <2>1. Returns("ExpectAtEnd", 0, hit, <<>>)
    BY Zenon DEF ExpectAtEnd, AtOnce
  <2>2. ret'.op = "ExpectAtEnd"
    BY <2>1, ReturnsOf
  <2> QED
    BY <2>2, Zenon DEF ExpectAtEnd, AtOnce
<1>2. /\ cis.open /\ call = NoCall /\ cis \in CodedInputs
  BY <1>1, ReaderState DEF Idle
<1>3. cis'.legitimate_message_end_ = b
  BY <1>1, <1>2 DEF CodedInputs
<1>4. hit
  BY <1>3 DEF NotesEnd
<1> HIDE DEF b
<1>5. cursorBar' = cursorBar /\ lostBar' = lostBar
  BY <1>1, <1>2 DEF CodedInputs, cursorBar, Cursor, lostBar
<1>6. cis.buffer_size_after_limit_ > 0 /\ cis.buffer_size_ = 0
  BY <1>2, <1>4, CodedFields
<1>7. cursorBar = At(cis, in)
  BY <1>2 DEF cursorBar, Cursor, At
<1>8. lostBar \/ cursorBar = cis.base + Closest(cis)
  BY <1>2, <1>6, <1>7, LimitReached
<1>9. cursorBar = cis.base + Closest(cis)
        => \/ cursorBar >= cis.base + cis.current_limit_
           \/ cursorBar >= cis.base + cis.total_bytes_limit_
  BY <1>2, CodedFields DEF Closest, Least
<1> QED
  BY <1>1, <1>5, <1>8, <1>9 DEF MessageEnds, MayEnd

LEMMA AtVarintNotes ==
  ASSUME WriterInv, CursorInv, AtVarint, NotesEnd, UNCHANGED outVars
  PROVE  MessageEnds
<1>0. call.stage = "fallback" /\ limits' = limits
  BY DEF AtVarint
<1>1. /\ cis.open /\ call # NoCall /\ call.from \in Nat
      /\ Len(call.got) = 0 /\ At(cis, in) = call.from + Len(call.got)
  <2>1. /\ call.stage # "none" /\ call.stage \in {"fallback", "varint"}
    BY <1>0
  <2> QED
    BY <2>1, CallOf, EmptyBytes
<1>2. At(cis, in) = call.from /\ cursorBar = call.from
  <2>1. cursorBar = call.from
    BY <1>1 DEF cursorBar
  <2> QED
    BY <1>1, <2>1
<1>3. file \in Bytes /\ Held(cis, in) /\ cis \in CodedInputs
  BY ReaderState
<1>4. CASE cis' = cis
  BY <1>4 DEF NotesEnd
<1>5. CASE /\ cis.buffer_size_ = 0
           /\ cis.buffer_size_after_limit_ > 0
           /\ Position(cis) < cis.total_bytes_limit_
           /\ Return(FALSE, <<>>, [cis EXCEPT !.legitimate_message_end_ = TRUE])
           /\ UNCHANGED in
  <2>1. /\ cis' = [cis EXCEPT !.legitimate_message_end_ = TRUE]
        /\ call' = NoCall /\ in' = in
    BY <1>5 DEF Return
  <2>2. cursorBar' = At(cis, in) /\ lostBar' = lostBar
    BY <1>3, <2>1 DEF CodedInputs, cursorBar, Cursor, At, lostBar
  <2>3. Position(cis) = Closest(cis) /\ (lostBar \/ At(cis, in) = cis.base + Closest(cis))
    BY <1>1, <1>5, LimitReached
  <2>4. Closest(cis) = cis.current_limit_
    BY <1>3, <1>5, <2>3, CodedFields DEF Closest, Least
  <2>5. At(cis, in) = cis.base + cis.current_limit_
          => At(cis, in) >= cis.base + cis.current_limit_
    BY <1>3, CodedFields
  <2> QED
    BY <1>2, <2>2, <2>3, <2>4, <2>5 DEF MessageEnds, MayEnd
<1>6. CASE /\ cis.buffer_size_ = 0
           /\ \E o \in Refresh(cis) :
                /\ in' = o.in
                /\ \/ o.ok /\ cis' = o.c /\ UNCHANGED <<call, ret>>
                   \/ /\ ~o.ok
                      /\ Return(FALSE, <<>>,
                           [o.c EXCEPT !.legitimate_message_end_ =
                              \/ Position(o.c) < o.c.total_bytes_limit_
                              \/ o.c.current_limit_ = o.c.total_bytes_limit_])
  <2>1. PICK o \in Refresh(cis) :
                /\ in' = o.in
                /\ \/ o.ok /\ cis' = o.c /\ UNCHANGED <<call, ret>>
                   \/ /\ ~o.ok
                      /\ Return(FALSE, <<>>,
                           [o.c EXCEPT !.legitimate_message_end_ =
                              \/ Position(o.c) < o.c.total_bytes_limit_
                              \/ o.c.current_limit_ = o.c.total_bytes_limit_])
    BY <1>6
  <2>2. CASE cis' = o.c
    BY <1>3, <2>2, RefreshOf DEF SameReader, NotesEnd
  <2>3. CASE /\ ~o.ok
             /\ Return(FALSE, <<>>,
                  [o.c EXCEPT !.legitimate_message_end_ =
                     \/ Position(o.c) < o.c.total_bytes_limit_
                     \/ o.c.current_limit_ = o.c.total_bytes_limit_])
    <3> DEFINE b == \/ Position(o.c) < o.c.total_bytes_limit_
                    \/ o.c.current_limit_ = o.c.total_bytes_limit_
    <3>1. /\ b \in BOOLEAN /\ cis' = [o.c EXCEPT !.legitimate_message_end_ = b]
          /\ call' = NoCall
      BY <2>3, Zenon DEF Return
    <3> HIDE DEF b
    <3>2. /\ cursorBar' = At(cis, in) + cis.buffer_size_
          /\ ~lostBar' => ~lostBar
          /\ lostBar' \/ At(cis, in) + cis.buffer_size_ >= StopAt(cis, in)
      BY <1>0, <1>1, <2>1, <2>3, <3>1, RefreshBars
    <3>3. At(cis, in) + cis.buffer_size_ = At(cis, in)
      BY <1>1, <1>2, <1>6
    <3>4. b
      <4>1. o.c \in CodedInputs
        BY <1>3, <2>1, RefreshOf DEF Held, CountsOK
      <4>2. cis'.legitimate_message_end_ = b
        BY <3>1, <4>1 DEF CodedInputs
      <4> QED
        BY <4>2 DEF NotesEnd
    <3>5. ASSUME ~lostBar'
          PROVE  MayEnd
      <4>1. /\ Lag(cis, in) = 0 /\ At(cis, in) >= StopAt(cis, in)
        BY <1>1, <3>2, <3>3, <3>5, Bars DEF LostAt
      <4>2. ~o.ok /\ Held(o.c, o.in) /\ SameReader(cis, o.c)
            /\ At(o.c, o.in) = At(cis, in) + cis.buffer_size_
            /\ Lag(o.c, o.in) = Lag(cis, in)
        BY <1>3, <2>1, <2>3, RefreshOf
      <4>3. At(cis, in) = cis.base + Position(o.c) /\ Position(o.c) \in Nat
        <5>1. CountOK(o.c, o.in) /\ o.c.open
          BY <1>1, <4>1, <4>2 DEF CountOK, SameReader
        <5>2. At(o.c, o.in) = o.c.base + Position(o.c) - Lag(o.c, o.in)
          BY <1>3, <4>2, <5>1, Standing
        <5>3. Position(o.c) \in Nat
          BY <4>2, CountsOf DEF Held
        <5>4. o.c.base = cis.base /\ cis.base \in Nat
          BY <1>3, <4>2, CodedFields DEF SameReader
        <5> QED
          BY <3>3, <4>1, <4>2, <5>2, <5>3, <5>4
      <4>4. /\ o.c.current_limit_ = cis.current_limit_
            /\ o.c.total_bytes_limit_ = cis.total_bytes_limit_
        BY <4>2 DEF SameReader
      <4>5. /\ cis.base \in Nat /\ cis.current_limit_ \in Nat
            /\ cis.total_bytes_limit_ \in Nat /\ Len(file) \in Nat
        BY <1>3, CodedFields DEF Bytes
      <4>6. CASE Position(o.c) < o.c.total_bytes_limit_
        <5>1. At(cis, in) < cis.base + cis.total_bytes_limit_
          BY <4>3, <4>4, <4>5, <4>6
        <5>2. \/ At(cis, in) >= Len(file)
              \/ At(cis, in) >= cis.base + Closest(cis)
              \/ in.limited /\ At(cis, in) >= EndOf(in)
          BY <4>1 DEF StopAt, BoundAt, Least
        <5>3. CASE At(cis, in) >= cis.base + Closest(cis)
          <6>1. At(cis, in) >= cis.base + cis.current_limit_
            BY <4>3, <4>5, <5>1, <5>3 DEF Closest, Least
          <6> QED
            BY <1>2, <6>1 DEF MayEnd
        <5>4. CASE in.limited /\ At(cis, in) >= EndOf(in)
          <6>1. endBar = EndOf(in)
            BY <5>4 DEF endBar, EndOf
          <6>2. endBar \in Int
            BY <1>3, <6>1, InFields DEF Held, InputOK, EndOf
          <6>3. At(cis, in) >= Least(endBar, Len(file))
            BY <4>3, <4>5, <5>4, <6>1, <6>2 DEF Least
          <6> QED
            BY <1>2, <5>1, <5>4, <6>3 DEF MayEnd
        <5>5. CASE At(cis, in) >= Len(file)
          <6>1. CASE in.limited
            <7>1. endBar = EndOf(in)
              BY <6>1 DEF endBar, EndOf
            <7>2. endBar \in Int
              BY <1>3, <7>1, InFields DEF Held, InputOK, EndOf
            <7>3. At(cis, in) >= Least(endBar, Len(file))
              BY <4>3, <4>5, <5>5, <7>2 DEF Least
            <7> QED
              BY <1>2, <5>1, <6>1, <7>3 DEF MayEnd
          <6>2. CASE ~in.limited
            BY <1>2, <5>1, <5>5, <6>2 DEF MayEnd
          <6> QED
            BY <6>1, <6>2
        <5> QED
          BY <5>2, <5>3, <5>4, <5>5
      <4>7. CASE ~(Position(o.c) < o.c.total_bytes_limit_)
        <5>1. cis.current_limit_ = cis.total_bytes_limit_
          BY <3>4, <4>4, <4>7 DEF b
        <5>2. At(cis, in) >= cis.base + cis.current_limit_
          BY <4>3, <4>4, <4>5, <4>7, <5>1
        <5> QED
          BY <1>2, <5>2 DEF MayEnd
      <4> QED
        BY <4>6, <4>7
    <3> QED
      BY <1>2, <3>2, <3>3, <3>5 DEF MessageEnds
  <2> QED
    BY <2>1, <2>2, <2>3
<1> QED
  BY <1>4, <1>5, <1>6, Zenon DEF AtVarint

\* The end of a message is noted only where one may end, or after an error, and
\* never within a varint, but that ExpectAtEnd() notes the limit on all bytes too:
\* also where a skip leapt beyond what it was asked for, because the reader has
\* lost count then (ReadVarint32Fallback, ExpectAtEnd).
THEOREM EndNoticed == Spec => EndIsNoticed
<1>1. WriterInv /\ CursorInv /\ RetOK /\ [Next]_vars
        => [NotesEnd =>
              /\ cursorBar' = cursorBar
              /\ \/ MayEnd \/ lostBar'
                 \/ /\ ret'.op = "ExpectAtEnd"
                    /\ cursorBar >= cis.base + cis.total_bytes_limit_]_vars
  <2> SUFFICES ASSUME WriterInv, CursorInv, RetOK, [Next]_vars, NotesEnd
               PROVE  MessageEnds
    BY DEF MessageEnds
  <2>1. closed = "gone" /\ ReaderNext /\ UNCHANGED outVars
    BY DEF Next, vars, inVars, NotesEnd
  <2> QED
    BY <2>1, EndUnnoted, AtVarintNotes, ExpectAtEndNotes
<1>2. Init => RetOK
  BY DEF Init, InInit, NoResult, RetOK
<1>3. RetOK /\ [Next]_vars => RetOK'
  BY ResultsKept DEF Next, vars, inVars, RetOK
<1> QED
  BY <1>1, <1>2, <1>3, WriterInvariant, ReaderInvariant, PTL DEF Spec, EndIsNoticed
-----------------------------------------------------------------------------
(* The bytes delivered, also where a skip leapt or a read failed *)

\* A call under way has no result yet, and no call was made while the file was
\* written.
ResultInv ==
  /\ RetOK
  /\ call # NoCall \/ closed # "gone" => ret.op = "none"

\* The step DeliversInOrder allows.
InOrder ==
  /\ cursorBar' >= cursorBar
  /\ ret'.op \in Cursors!Reading /\ ret'.ok
     => LET n == Len(ret'.bytes)
        IN  /\ cursorBar' = cursorBar + n
            /\ n > 0 => cursorBar' <= Len(file)
            /\ ret'.bytes = SubSeq(file, cursorBar + 1, cursorBar + n)

LEMMA CursorNat ==
  ASSUME WriterInv, CursorInv
  PROVE  cursorBar \in Nat
<1>1. At(cis, in) \in Nat /\ CallOK
  BY ReaderState, HeldOf
<1>2. CASE call = NoCall
  BY <1>1, <1>2 DEF cursorBar, Cursor, At
<1>3. CASE call # NoCall
  BY <1>1, <1>3 DEF cursorBar, CallOK
<1> QED
  BY <1>2, <1>3

\* A step that leaves the cursor alone, and no bytes.
LEMMA KeepsOrder ==
  ASSUME WriterInv, CursorInv, cursorBar' = cursorBar,
         ret'.op \notin Cursors!Reading \/ ~ret'.ok
  PROVE  InOrder
BY CursorNat DEF InOrder

\* A call that ends by delivering what it has got.
LEMMA DeliversNext ==
  ASSUME WriterInv, CursorInv, RetOK, UNCHANGED outVars, call.stage # "none",
         NEW m \in 0 .. cis.buffer_size_, cis' = Advance(cis, m),
         in' = in, limits' = limits, call' = NoCall,
         NEW g \in Bytes, GotBy(g, m), Returns(call.op, call.n, TRUE, g)
  PROVE  InOrder
<1>1. /\ g = Cursors!Upcoming(Len(g)) /\ cursorBar' = cursorBar + Len(g)
      /\ Len(g) > 0 => cursorBar' <= Len(file)
  BY GotNext
<1>2. ret'.bytes = g
  BY ReturnsOf
<1>3. cursorBar \in Nat /\ Len(g) \in Nat
  BY CursorNat DEF Bytes
<1>4. cursorBar' >= cursorBar
  BY <1>1, <1>3
<1> QED
  BY <1>1, <1>2, <1>4 DEF InOrder, Cursors!Upcoming

\* A call that goes on has not moved the cursor.
LEMMA GoesOnInOrder ==
  ASSUME WriterInv, CursorInv, ResultInv, call.stage # "none",
         call' # NoCall, call'.from = call.from, ret' = ret
  PROVE  InOrder
<1>1. call # NoCall
  BY CallOf
<1>2. cursorBar' = cursorBar
  BY <1>1 DEF cursorBar
<1>3. ret'.op = "none"
  BY <1>1 DEF ResultInv
<1> QED
  BY <1>2, <1>3, KeepsOrder DEF Cursors!Reading

\* A call that fails leaves the cursor behind what it has got, or further on.
LEMMA FailsInOrder ==
  ASSUME WriterInv, CursorInv, RetOK, UNCHANGED outVars, call.stage # "none",
         NEW m \in Nat, cursorBar' = At(cis, in) + m, NEW op, NEW n,
         Returns(op, n, FALSE, <<>>)
  PROVE  InOrder
<1>1. /\ cis.open /\ call # NoCall /\ call.from \in Nat
      /\ Len(call.got) \in Nat /\ At(cis, in) = call.from + Len(call.got)
  BY CallOf
<1>2. cursorBar = call.from
  BY <1>1, Bars
<1>3. ret'.ok = FALSE
  BY ReturnsOf
<1>4. cursorBar' >= cursorBar
  <2> DEFINE len == Len(call.got)
             at == At(cis, in)
  <2>1. /\ len \in Nat /\ call.from \in Nat /\ at = call.from + len
        /\ cursorBar' = at + m
    BY <1>1
  <2> HIDE DEF len, at
  <2> QED
    BY <1>2, <2>1
<1> QED
  BY <1>3, <1>4 DEF InOrder

\* Another block is read, or none is left.
LEMMA RefreshInOrder ==
  ASSUME WriterInv, CursorInv, ResultInv, UNCHANGED outVars,
         call.stage # "none", NEW o \in Refresh(cis), in' = o.in,
         NEW b \in BOOLEAN,
         cis' = o.c \/ cis' = [o.c EXCEPT !.legitimate_message_end_ = b],
         limits' = limits,
         \/ call' # NoCall /\ call'.from = call.from /\ ret' = ret
         \/ call' = NoCall /\ Returns(call.op, call.n, FALSE, <<>>)
  PROVE  InOrder
<1>1. CASE call' # NoCall /\ call'.from = call.from /\ ret' = ret
  BY <1>1, GoesOnInOrder
<1>2. CASE call' = NoCall /\ Returns(call.op, call.n, FALSE, <<>>)
  <2>1. cis.open /\ cis.buffer_size_ \in Nat
    BY CallOf, CodedFields, ReaderState
  <2>2. cursorBar' = At(cis, in) + cis.buffer_size_
    BY <1>2, <2>1, RefreshBars
  <2> QED
    BY <1>2, <2>1, <2>2, FailsInOrder DEF ResultInv
<1> QED
  BY <1>1, <1>2

\* The call goes on with another field changed.
LEMMA CallGoesOn ==
  ASSUME WriterInv, CursorInv, call.stage # "none", NEW x,
         \/ call' = [call EXCEPT !.stage = x]
         \/ call' = [call EXCEPT !.got = x]
  PROVE  call' # NoCall /\ call'.from = call.from
<1>1. /\ call \in [op : {"Read", "ReadVarint"},
                   stage : {"copy", "fallback", "varint", "bytes"},
                   n : Int, got : Bytes, from : Nat]
      /\ call.op \in {"Read", "ReadVarint"}
  BY CallOf
<1>2. call'.from = call.from /\ call'.op = call.op
  BY <1>1
<1> QED
  BY <1>1, <1>2 DEF NoCall

LEMMA CopyOutInOrder ==
  ASSUME WriterInv, CursorInv, ResultInv, UNCHANGED outVars, CopyOut
  PROVE  InOrder
<1> DEFINE missing == call.n - Len(call.got)
           f == Front(cis.buffer_, missing)
           g == call.got \o f
<1>1. /\ call.stage = "copy" /\ limits' = limits
      /\ \/ /\ missing <= cis.buffer_size_
            /\ Return(TRUE, g, Advance(cis, missing)) /\ in' = in
         \/ \E o \in Refresh(cis) :
              /\ in' = o.in
              /\ \/ /\ call' = [call EXCEPT !.got = @ \o Readable(cis)]
                    /\ cis' = o.c /\ ret' = ret
                 \/ Return(FALSE, <<>>, o.c)
  BY Zenon DEF CopyOut
<1>2. /\ call.stage # "none" /\ call.n \in Int /\ call.got \in Bytes
      /\ Len(call.got) \in Nat /\ Len(call.got) <= call.n
  <2>1. call.stage # "none"
    BY <1>1
  <2> QED
    BY <1>1, <2>1, CallOf
<1>3. missing \in Nat
  BY <1>2
<1> HIDE DEF missing
<1>4. CASE /\ missing <= cis.buffer_size_
           /\ Return(TRUE, g, Advance(cis, missing)) /\ in' = in
  <2>1. /\ cis' = Advance(cis, missing) /\ call' = NoCall
        /\ Returns(call.op, call.n, TRUE, g)
    BY <1>4, Zenon DEF Return
  <2>2. /\ missing \in 0 .. cis.buffer_size_ /\ cis.buffer_ \in Bytes
        /\ missing \in 0 .. Len(cis.buffer_)
    <3>1. /\ cis.buffer_size_ \in Nat /\ cis.buffer_ \in Bytes
          /\ cis.buffer_size_ <= Len(cis.buffer_)
      BY ReaderState, ReadableOf
    <3>2. Len(cis.buffer_) \in Nat
      BY <3>1 DEF Bytes
    <3> QED
      BY <1>3, <1>4, <3>1, <3>2
  <2>3. /\ f \in Bytes /\ Len(f) = missing
        /\ \A j \in 1 .. missing : f[j] = cis.buffer_[j]
    BY <2>2, FrontOf DEF Bytes
  <2> HIDE DEF f
  <2>4. g \in Bytes /\ Joined(g, call.got, f)
    BY <1>2, <2>3, JoinedBytes
  <2> HIDE DEF g
  <2>5. GotBy(g, missing)
    BY <2>3, <2>4 DEF Joined, GotBy
  <2> QED
    BY <1>1, <1>2, <1>4, <2>1, <2>2, <2>4, <2>5, DeliversNext DEF ResultInv
<1>5. ASSUME NEW o \in Refresh(cis), in' = o.in,
             \/ /\ call' = [call EXCEPT !.got = @ \o Readable(cis)]
                /\ cis' = o.c /\ ret' = ret
             \/ Return(FALSE, <<>>, o.c)
      PROVE  InOrder
  <2>1. CASE /\ call' = [call EXCEPT !.got = @ \o Readable(cis)]
             /\ cis' = o.c /\ ret' = ret
    <3>1. call' # NoCall /\ call'.from = call.from
      <4> DEFINE x == call.got \o Readable(cis)
      <4>1. call' = [call EXCEPT !.got = x]
        BY <2>1
      <4> HIDE DEF x
      <4> QED
        BY <1>2, <4>1, CallGoesOn
    <3> QED
      BY <1>1, <1>2, <1>5, <2>1, <3>1, TRUE \in BOOLEAN, RefreshInOrder
  <2>2. CASE Return(FALSE, <<>>, o.c)
    <3>1. /\ cis' = o.c /\ call' = NoCall
          /\ Returns(call.op, call.n, FALSE, <<>>)
      BY <2>2 DEF Return
    <3> QED
      BY <1>1, <1>2, <1>5, <3>1, TRUE \in BOOLEAN, RefreshInOrder
  <2> QED
    BY <1>5, <2>1, <2>2
<1> HIDE DEF f, g
<1> QED
  BY <1>1, <1>4, <1>5

\* A call that returns FALSE where it stands.
LEMMA GivesUpInOrder ==
  ASSUME WriterInv, CursorInv, RetOK, UNCHANGED outVars, call.stage # "none",
         NEW b \in BOOLEAN,
         cis' = cis \/ cis' = [cis EXCEPT !.legitimate_message_end_ = b],
         in' = in, call' = NoCall, NEW n, NEW op, Returns(op, n, FALSE, <<>>)
  PROVE  InOrder
<1>1. cis \in CodedInputs /\ At(cis, in) \in Nat
  BY ReaderState, HeldOf
<1>2. cis'.buffer_ = cis.buffer_
  BY <1>1 DEF CodedInputs
<1>3. cursorBar' = At(cis, in)
  BY <1>2 DEF cursorBar, Cursor, At
<1>4. cursorBar' = At(cis, in) + 0 /\ 0 \in Nat
  BY <1>1, <1>3
<1> QED
  BY <1>4, FailsInOrder

LEMMA AtVarintInOrder ==
  ASSUME WriterInv, CursorInv, ResultInv, UNCHANGED outVars, AtVarint
  PROVE  InOrder
<1>1. call.stage # "none" /\ limits' = limits
  BY DEF AtVarint
<1>2. CASE call' = [call EXCEPT !.stage = "varint"] /\ UNCHANGED <<in, cis, ret>>
  BY <1>1, <1>2, CallGoesOn, GoesOnInOrder
<1>3. CASE /\ Return(FALSE, <<>>, [cis EXCEPT !.legitimate_message_end_ = TRUE])
           /\ UNCHANGED in
  <2>1. /\ cis' = [cis EXCEPT !.legitimate_message_end_ = TRUE]
        /\ call' = NoCall /\ in' = in /\ Returns(call.op, call.n, FALSE, <<>>)
    BY <1>3 DEF Return
  <2> QED
    BY <1>1, <2>1, TRUE \in BOOLEAN, GivesUpInOrder DEF ResultInv
<1>4. ASSUME NEW o \in Refresh(cis), in' = o.in,
             \/ cis' = o.c /\ UNCHANGED <<call, ret>>
             \/ Return(FALSE, <<>>,
                  [o.c EXCEPT !.legitimate_message_end_ =
                     \/ Position(o.c) < o.c.total_bytes_limit_
                     \/ o.c.current_limit_ = o.c.total_bytes_limit_])
      PROVE  InOrder
  <2>1. CASE cis' = o.c /\ UNCHANGED <<call, ret>>
    <3>1. call' # NoCall /\ call'.from = call.from /\ ret' = ret
      BY <1>1, <2>1, CallOf
    <3> QED
      BY <1>1, <1>4, <2>1, <3>1, TRUE \in BOOLEAN, RefreshInOrder
  <2>2. CASE Return(FALSE, <<>>,
                  [o.c EXCEPT !.legitimate_message_end_ =
                     \/ Position(o.c) < o.c.total_bytes_limit_
                     \/ o.c.current_limit_ = o.c.total_bytes_limit_])
    <3> DEFINE b == \/ Position(o.c) < o.c.total_bytes_limit_
                    \/ o.c.current_limit_ = o.c.total_bytes_limit_
    <3>1. /\ b \in BOOLEAN /\ cis' = [o.c EXCEPT !.legitimate_message_end_ = b]
          /\ call' = NoCall /\ Returns(call.op, call.n, FALSE, <<>>)
      BY <2>2, Zenon DEF Return
    <3> HIDE DEF b
    <3> QED
      BY <1>1, <1>4, <3>1, RefreshInOrder
  <2> QED
    BY <1>4, <2>1, <2>2
<1> QED
  BY <1>2, <1>3, <1>4, Zenon DEF AtVarint

LEMMA FastVarintInOrder ==
  ASSUME WriterInv, CursorInv, ResultInv, UNCHANGED outVars, FastVarint
  PROVE  InOrder
<1> DEFINE r == Readable(cis)
           k == VarintLen(r)
           g == Front(cis.buffer_, k)
<1>1. /\ call.stage = "varint" /\ limits' = limits /\ in' = in
      /\ Returns(call.op, call.n, k > 0, g) /\ cis' = Advance(cis, k)
      /\ call' = NoCall
  BY DEF FastVarint, Return
<1>2. /\ cis.open /\ call.stage # "none" /\ call.got = <<>>
      /\ Len(call.got) = 0
  <2>1. call.stage # "none" /\ call.stage \in {"fallback", "varint"}
    BY <1>1
  <2> QED
    BY <2>1, CallOf, EmptyBytes
<1>3. /\ r \in Bytes /\ Len(r) = cis.buffer_size_ /\ cis.buffer_ \in Bytes
      /\ cis.buffer_size_ <= Len(cis.buffer_) /\ cis.buffer_size_ \in Nat
  BY ReaderState, ReadableOf
<1> HIDE DEF r
<1>4. k \in 0 .. cis.buffer_size_
  BY <1>3, VarintLenOf
<1> HIDE DEF k
<1>5. k \in Nat /\ k \in 0 .. Len(cis.buffer_)
  <2>1. Len(cis.buffer_) \in Nat
    BY <1>3 DEF Bytes
  <2> QED
    BY <1>3, <1>4, <2>1
<1>6. /\ g \in Bytes /\ Len(g) = k
      /\ \A j \in 1 .. k : g[j] = cis.buffer_[j]
  BY <1>3, <1>5, FrontOf DEF Bytes
<1>7. CASE k = 0
  <2>1. cursorBar' = At(cis, in) + k
    BY <1>1, <1>2, <1>4, AdvanceBars
  <2>2. Returns(call.op, call.n, FALSE, <<>>)
    <3>1. (k > 0) = FALSE /\ g = <<>>
      BY <1>6, <1>7, NoBytes
    <3> QED
      BY <1>1, <3>1
  <2> QED
    BY <1>2, <1>5, <2>1, <2>2, FailsInOrder DEF ResultInv
<1> HIDE DEF g
<1>8. CASE k > 0
  <2>1. (k > 0) = TRUE
    BY <1>8
  <2>2. Returns(call.op, call.n, TRUE, g)
    BY <1>1, <2>1
  <2>3. GotBy(g, k)
    BY <1>2, <1>5, <1>6 DEF GotBy
  <2> QED
    BY <1>1, <1>2, <1>4, <1>6, <2>2, <2>3, DeliversNext DEF ResultInv
<1> QED
  BY <1>5, <1>7, <1>8

LEMMA VarintByteInOrder ==
  ASSUME WriterInv, CursorInv, ResultInv, UNCHANGED outVars, VarintByte
  PROVE  InOrder
<1> DEFINE b == cis.buffer_[1]
           g == Append(call.got, b)
<1>1. call.stage # "none" /\ limits' = limits
  BY DEF VarintByte
<1>2. CASE Return(FALSE, <<>>, cis) /\ in' = in
  <2>1. /\ cis' = cis /\ call' = NoCall
        /\ Returns(call.op, call.n, FALSE, <<>>)
    BY <1>2 DEF Return
  <2> QED
    BY <1>1, <1>2, <2>1, TRUE \in BOOLEAN, GivesUpInOrder DEF ResultInv
<1>3. ASSUME NEW o \in Refresh(cis), in' = o.in,
             \/ cis' = o.c /\ UNCHANGED <<call, ret>>
             \/ Return(FALSE, <<>>, o.c)
      PROVE  InOrder
  <2>1. CASE cis' = o.c /\ UNCHANGED <<call, ret>>
    <3>1. call' # NoCall /\ call'.from = call.from /\ ret' = ret
      BY <1>1, <2>1, CallOf
    <3> QED
      BY <1>1, <1>3, <2>1, <3>1, TRUE \in BOOLEAN, RefreshInOrder
  <2>2. CASE Return(FALSE, <<>>, o.c)
    <3>1. /\ cis' = o.c /\ call' = NoCall
          /\ Returns(call.op, call.n, FALSE, <<>>)
      BY <2>2 DEF Return
    <3> QED
      BY <1>1, <1>3, <3>1, TRUE \in BOOLEAN, RefreshInOrder
  <2> QED
    BY <1>3, <2>1, <2>2
<1>4. CASE /\ cis.buffer_size_ > 0 /\ in' = in
           /\ Return(TRUE, g, Advance(cis, 1))
  <2>1. /\ cis' = Advance(cis, 1) /\ call' = NoCall
        /\ Returns(call.op, call.n, TRUE, g)
    BY <1>4, Zenon DEF Return
  <2>2. /\ cis.buffer_size_ \in Nat /\ cis.buffer_ \in Bytes
        /\ cis.buffer_size_ <= Len(cis.buffer_)
    BY ReaderState, ReadableOf
  <2>3. 1 \in 0 .. cis.buffer_size_ /\ b \in Nat
    <3>1. cis.buffer_ \in Seq(Nat) /\ Len(cis.buffer_) \in Nat
      BY <2>2 DEF Bytes
    <3>2. 1 \in 1 .. Len(cis.buffer_)
      BY <1>4, <2>2, <3>1
    <3> QED
      BY <1>4, <2>2, <3>1, <3>2, ElementOfSeq
  <2> HIDE DEF b
  <2>4. /\ g \in Bytes /\ Len(g) = Len(call.got) + 1
        /\ \A j \in 1 .. Len(call.got) : g[j] = call.got[j]
        /\ g[Len(call.got) + 1] = b
    <3>1. call.got \in Seq(Nat)
      BY <1>1, CallOf DEF Bytes
    <3> QED
      BY <2>3, <3>1, AppendProperties DEF Bytes
  <2> HIDE DEF g
  <2>5. GotBy(g, 1)
    <3>1. \A j \in 1 .. 1 : g[Len(call.got) + j] = cis.buffer_[j]
      BY <2>4 DEF b
    <3> QED
      BY <2>4, <3>1 DEF GotBy
  <2> QED
    BY <1>1, <1>4, <2>1, <2>3, <2>4, <2>5, DeliversNext DEF ResultInv
<1>5. CASE call' = [call EXCEPT !.got = Append(@, b)] /\ ret' = ret
  <2>1. call' = [call EXCEPT !.got = g]
    BY <1>5
  <2> HIDE DEF g
  <2> QED
    BY <1>1, <1>5, <2>1, CallGoesOn, GoesOnInOrder
<1> QED
  BY <1>2, <1>3, <1>4, <1>5, Zenon DEF VarintByte

LEMMA SlowVarintInOrder ==
  ASSUME WriterInv, CursorInv, ResultInv, SlowVarint
  PROVE  InOrder
<1>1. call.stage # "none" /\ call' = [call EXCEPT !.stage = "bytes"] /\ ret' = ret
  BY DEF SlowVarint
<1> QED
  BY <1>1, CallGoesOn, GoesOnInOrder

\* The bytes of a tag that is there are the next ones; no other tag is read.
LEMMA ExpectTagInOrder ==
  ASSUME WriterInv, CursorInv, ResultInv, UNCHANGED outVars,
         NEW k \in 0 .. 2, ExpectTag(k)
  PROVE  InOrder
<1> DEFINE r == Readable(cis)
           hit == k \in {1, 2} /\ VarintLen(r) = k
           n == IF hit THEN k ELSE 0
           g == Front(cis.buffer_, n)
           at == At(cis, in)
<1>1. /\ Idle /\ UNCHANGED <<in, limits>> /\ call' = call
      /\ cis' = Advance(cis, n) /\ Returns("ExpectTag", k, hit, g)
  BY Zenon DEF ExpectTag, AtOnce
<1>2. cis.open /\ call = NoCall
  BY <1>1 DEF Idle
<1>3. /\ r \in Bytes /\ Len(r) = cis.buffer_size_ /\ cis.buffer_ \in Bytes
      /\ cis.buffer_size_ <= Len(cis.buffer_) /\ cis.buffer_size_ \in Nat
  BY ReaderState, ReadableOf
<1>4. n \in 0 .. cis.buffer_size_
  <2>1. VarintLen(r) \in 0 .. cis.buffer_size_
    <3> HIDE DEF r
    <3> QED
      BY <1>3, VarintLenOf
  <2>2. n = VarintLen(r) \/ n = 0
    OBVIOUS
  <2> HIDE DEF n, r
  <2> QED
    BY <1>3, <2>1, <2>2
<1> HIDE DEF r, n, hit
<1>5. n \in Nat /\ n \in 0 .. Len(cis.buffer_)
  <2>1. Len(cis.buffer_) \in Nat
    BY <1>3 DEF Bytes
  <2> QED
    BY <1>3, <1>4, <2>1
<1>6. /\ g \in Bytes /\ Len(g) = n
      /\ \A j \in 1 .. n : g[j] = cis.buffer_[j]
  BY <1>3, <1>5, FrontOf DEF Bytes
<1> HIDE DEF g
<1>7. cursorBar' = at + n
  <2>1. call' = NoCall
    BY <1>1, <1>2
  <2> QED
    BY <1>1, <1>2, <1>4, <2>1, AdvanceBars
<1>8. /\ cursorBar = at /\ at \in Nat
  <2>1. cursorBar = at
    BY <1>2 DEF cursorBar, Cursor, At
  <2> QED
    BY <2>1, CursorNat
<1>9. ret'.bytes = g
  BY <1>1, ReturnsOf DEF ResultInv
<1> HIDE DEF at
<1>10. /\ g = SubSeq(file, at + 1, at + Len(g))
       /\ n > 0 => at + n <= Len(file)
  <2>1. CASE n = 0
    <3>1. g = <<>>
      BY <1>6, <2>1, NoBytes
    <3>2. SubSeq(file, at + 1, at + 0) = <<>>
      <4>1. at + 1 \in Int /\ at + 0 \in Int /\ at + 0 < at + 1
        BY <1>8
      <4> QED
        BY <4>1, SubSeqEmpty
    <3>3. g = SubSeq(file, at + 1, at + Len(g))
      BY <1>6, <2>1, <3>1, <3>2
    <3> QED
      BY <2>1, <3>3
  <2>2. CASE n > 0
    <3>1. file \in Bytes /\ cis.buffer_size_ > 0
      BY <1>3, <1>4, <2>2, ReaderState
    <3>2. /\ \A j \in 1 .. cis.buffer_size_ : cis.buffer_[j] = file[at + j]
          /\ at + cis.buffer_size_ <= Len(file) /\ Len(file) \in Nat
      BY <3>1, ReaderState, ReadableOf DEF at, Bytes
    <3>3. at + Len(g) <= Len(file)
      BY <1>3, <1>4, <1>5, <1>6, <1>8, <3>2
    <3>4. \A j \in 1 .. n : j \in 1 .. cis.buffer_size_
      BY <1>3, <1>4, <1>5
    <3>5. \A j \in 1 .. Len(g) : g[j] = file[at + j]
      BY <1>6, <3>2, <3>4
    <3>6. g = SubSeq(file, at + 1, at + Len(g))
      BY <1>6, <1>8, <3>1, <3>3, <3>5, NextBytes
    <3> QED
      BY <1>6, <3>3, <3>6
  <2> QED
    BY <1>5, <2>1, <2>2
<1>11. at + n >= at
  BY <1>5, <1>8
<1> QED
  BY <1>6, <1>7, <1>8, <1>9, <1>10, <1>11 DEF InOrder

LEMMA ExpectAtEndInOrder ==
  ASSUME WriterInv, CursorInv, ResultInv, ExpectAtEnd
  PROVE  InOrder
<1> DEFINE hit == cis.buffer_size_ = 0 /\ cis.buffer_size_after_limit_ # 0
           b == cis.legitimate_message_end_ \/ hit
<1>1. /\ Idle /\ in' = in /\ call' = call
      /\ cis' = [cis EXCEPT !.legitimate_message_end_ = b]
      /\ Returns("ExpectAtEnd", 0, hit, <<>>)
  BY Zenon DEF ExpectAtEnd, AtOnce
<1> HIDE DEF b, hit
<1>2. cis'.buffer_ = cis.buffer_
  BY <1>1, ReaderState DEF CodedInputs
<1>3. cursorBar' = cursorBar
  BY <1>1, <1>2 DEF cursorBar, Cursor, Idle
<1>4. ret'.op = "ExpectAtEnd"
  BY <1>1, ReturnsOf DEF ResultInv
<1> QED
  BY <1>3, <1>4, KeepsOrder DEF Cursors!Reading

\* A skip goes forward, however far it goes.
LEMMA SkipInOrder ==
  ASSUME WriterInv, CursorInv, CursorInv', ResultInv, UNCHANGED outVars,
         NEW n \in Sizes, Skip(n)
  PROVE  InOrder
<1>1. /\ Idle /\ limits' = limits /\ call' = call /\ cis.buffer_size_ \in Nat
  BY SkipCases
<1>2. /\ cis.open /\ call = NoCall /\ call' = NoCall
      /\ cursorBar = At(cis, in) /\ At(cis, in) \in Nat
  <2>1. cis.open /\ call = NoCall
    BY <1>1 DEF Idle
  <2>2. cursorBar = At(cis, in)
    BY <2>1 DEF cursorBar, Cursor, At
  <2> QED
    BY <1>1, <2>1, <2>2, CursorNat
<1>3. ret'.op = "Skip"
  <2>1. \E ok : Returns("Skip", n, ok, <<>>)
    BY SkipCases, Zenon
  <2> QED
    BY <2>1, ReturnsOf DEF ResultInv
<1>4. ASSUME NEW k \in 0 .. cis.buffer_size_, cis' = Advance(cis, k), in' = in
      PROVE  cursorBar' >= cursorBar
  <2>1. cursorBar' = At(cis, in) + k
    BY <1>1, <1>2, <1>4, AdvanceBars
  <2> QED
    BY <1>1, <1>2, <2>1
<1>5. ASSUME cis.buffer_size_after_limit_ = 0, NEW m \in Nat,
             NEW o \in InSkip(in, m), cis' = Beyond(cis, m), in' = o.in,
             cis.total_bytes_read_ + m <= Closest(cis)
      PROVE  cursorBar' >= cursorBar
  <2>1. file \in Bytes /\ Held(cis, in)
    BY ReaderState
  <2>2. /\ At(cis', in') = InByteCount(o.in) /\ InputOK(in, 0)
        /\ At(cis, in) + cis.buffer_size_ = InByteCount(in)
    BY <1>5, <2>1, BeyondOf
  <2>3. /\ InByteCount(o.in) \in Int
        /\ InByteCount(o.in) >= InByteCount(in)
    BY <1>5, <2>1, <2>2, InSkipOf
  <2>4. cursorBar' = At(cis', in')
    BY <1>2 DEF cursorBar, Cursor, At
  <2> DEFINE at == At(cis, in)
             then == InByteCount(o.in)
  <2>5. /\ cursorBar' = then /\ cursorBar = at /\ at \in Nat
        /\ then >= at + cis.buffer_size_ /\ then \in Int
    BY <1>2, <2>2, <2>3, <2>4
  <2> HIDE DEF at, then
  <2> QED
    BY <1>1, <2>5
<1>6. cursorBar' >= cursorBar
  <2>1. cis.buffer_size_ \in 0 .. cis.buffer_size_
    BY <1>1
  <2>2. \/ cis' = cis /\ in' = in
        \/ \E k \in 0 .. cis.buffer_size_ : cis' = Advance(cis, k) /\ in' = in
        \/ /\ cis.buffer_size_after_limit_ = 0
           /\ \E m \in Nat : \E o \in InSkip(in, m) :
                /\ cis' = Beyond(cis, m) /\ in' = o.in
                /\ cis.total_bytes_read_ + m <= Closest(cis)
    BY <2>1, SkipCases, Zenon
  <2>3. CASE cis' = cis /\ in' = in
    BY <1>1, <1>2, <2>3 DEF cursorBar, Cursor
  <2> QED
    BY <1>4, <1>5, <2>2, <2>3
<1> QED
  BY <1>3, <1>6 DEF InOrder, Cursors!Reading

\* Every step of a reader.
LEMMA ReaderInOrder ==
  ASSUME WriterInv, CursorInv, CursorInv', ResultInv, UNCHANGED outVars,
         ReaderNext
  PROVE  InOrder
<1>0. RetOK
  BY DEF ResultInv
<1>1. CASE \/ Construct \/ Destruct \/ UnlimitInput
           \/ \E n \in InputLimits : LimitInput(n)
  <2>1. Cursors!Exchange
    BY <1>0, <1>1, ExchangeSteps
  <2> QED
    BY <2>1, KeepsOrder DEF Cursors!Exchange, Cursors!Reading
<1>2. CASE \/ PopLimit
           \/ \E n \in LimitSizes : PushLimit(n)
           \/ \E n \in TotalLimits : SetTotalBytesLimit(n)
  <2>1. PICK e \in CodedInputs :
          /\ SameCounts(cis, e) /\ cis' = RecomputeBufferLimits(e)
          /\ Idle /\ in' = in /\ call' = call
          /\ ret'.op \in {"PopLimit", "PushLimit", "SetTotalBytesLimit"}
    BY <1>0, <1>2, LimitsSet
  <2>2. cursorBar' = cursorBar
    BY <2>1, LimitingBars
  <2> QED
    BY <2>1, <2>2, KeepsOrder DEF Cursors!Reading
<1>3. ASSUME NEW op, NEW stage, NEW n, Begin(op, stage, n), op # "none"
      PROVE  InOrder
  <2>1. Cursors!Forget
    BY <1>3, BeginSteps
  <2> QED
    BY <2>1, KeepsOrder DEF Cursors!Forget, Cursors!Reading
<1>4. CASE ReadVarint64 \/ ReadTag
  BY <1>3, <1>4 DEF ReadVarint64, ReadTag
<1>5. CASE \E n \in Sizes : ReadRaw(n) \/ ReadString(n)
  <2>1. PICK n \in Sizes : ReadRaw(n) \/ ReadString(n)
    BY <1>5
  <2>2. CASE Begin("Read", "copy", n)
    BY <1>3, <2>2
  <2>3. CASE AtOnce("Read", n, FALSE, <<>>, cis) /\ UNCHANGED <<in, limits>>
    <3>1. ret'.ok = FALSE
      BY <1>0, <2>3, ReturnsOf DEF AtOnce
    <3>2. cursorBar' = cursorBar
      BY <2>3 DEF AtOnce, cursorBar, Cursor
    <3> QED
      BY <3>1, <3>2, KeepsOrder
  <2> QED
    BY <2>1, <2>2, <2>3 DEF ReadRaw, ReadString
<1>6. CASE \E n \in Sizes : Skip(n)
  BY <1>6, SkipInOrder
<1>7. CASE \E k \in 0 .. 2 : ExpectTag(k)
  BY <1>7, ExpectTagInOrder
<1> QED
  BY <1>1, <1>2, <1>4, <1>5, <1>6, <1>7, ExpectAtEndInOrder, CopyOutInOrder,
     AtVarintInOrder, FastVarintInOrder, VarintByteInOrder, SlowVarintInOrder,
     Zenon DEF ReaderNext

\* A result is left when no call is under way any more.
LEMMA ResultStep ==
  ASSUME WriterInv, CursorInv, ResultInv, ReaderNext
  PROVE  call' # NoCall => ret'.op = "none"
<1> DEFINE Awaiting == call' # NoCall => ret'.op = "none"
<1> SUFFICES Awaiting
  OBVIOUS
<1>1. ASSUME call.stage # "none", ret' = ret PROVE Awaiting
  <2>1. call # NoCall
    BY <1>1, CallOf
  <2> QED
    BY <1>1, <2>1 DEF ResultInv
<1>2. ASSUME NEW ok, NEW bytes, NEW c, Return(ok, bytes, c) PROVE Awaiting
  BY <1>2 DEF Return
<1>3. ASSUME NEW op, NEW n, NEW ok, NEW bytes, NEW c,
             AtOnce(op, n, ok, bytes, c)
      PROVE  Awaiting
  BY <1>3 DEF AtOnce, Idle
<1>4. ASSUME NEW op, NEW stage, NEW n, Begin(op, stage, n) PROVE Awaiting
  BY <1>4 DEF Begin, NoResult
<1>5. ASSUME ~cis.open, call' = call PROVE Awaiting
  BY <1>5, NoReaderOf
<1> HIDE DEF Awaiting
<1>6. CASE Construct \/ UnlimitInput \/ \E n \in InputLimits : LimitInput(n)
  BY <1>5, <1>6 DEF Construct, UnlimitInput, LimitInput
<1>7. CASE Destruct \/ PopLimit \/ ExpectAtEnd
  BY <1>3, <1>7, Zenon DEF Destruct, PopLimit, ExpectAtEnd
<1>8. CASE ReadVarint64 \/ ReadTag
  BY <1>4, <1>8, Zenon DEF ReadVarint64, ReadTag
<1>9. CASE \E n \in LimitSizes : PushLimit(n)
  BY <1>3, <1>9, Zenon DEF PushLimit
<1>10. CASE \E n \in TotalLimits : SetTotalBytesLimit(n)
  BY <1>3, <1>10, Zenon DEF SetTotalBytesLimit
<1>11. CASE \E n \in Sizes : ReadRaw(n) \/ ReadString(n)
  BY <1>3, <1>4, <1>11, Zenon DEF ReadRaw, ReadString
<1>12. CASE \E n \in Sizes : Skip(n)
  BY <1>3, <1>12, Zenon DEF Skip
<1>13. CASE \E k \in 0 .. 2 : ExpectTag(k)
  BY <1>3, <1>13, Zenon DEF ExpectTag
<1>14. CASE CopyOut
  <2>1. call.stage # "none"
    BY <1>14 DEF CopyOut
  <2> QED
    BY <1>1, <1>2, <1>14, <2>1, Zenon DEF CopyOut
<1>15. CASE AtVarint
  <2>1. call.stage # "none"
    BY <1>15 DEF AtVarint
  <2> QED
    BY <1>1, <1>2, <1>15, <2>1, Zenon DEF AtVarint
<1>16. CASE FastVarint
  BY <1>2, <1>16, Zenon DEF FastVarint
<1>17. CASE SlowVarint
  BY <1>1, <1>17 DEF SlowVarint
<1>18. CASE VarintByte
  <2>1. call.stage # "none"
    BY <1>18 DEF VarintByte
  <2> QED
    BY <1>1, <1>2, <1>18, <2>1, Zenon DEF VarintByte
<1> QED
  BY <1>6, <1>7, <1>8, <1>9, <1>10, <1>11, <1>12, <1>13, <1>14, <1>15,
     <1>16, <1>17, <1>18, Zenon DEF ReaderNext

LEMMA ResultKept ==
  ASSUME WriterInv, CursorInv, ResultInv, [Next]_vars
  PROVE  ResultInv'
<1>1. CASE closed = "gone" /\ ReaderNext /\ UNCHANGED outVars
  <2>1. closed' = "gone" /\ RetOK'
    BY <1>1, ResultsKept DEF outVars, ResultInv
  <2> QED
    BY <1>1, <2>1, ResultStep DEF ResultInv
<1>2. CASE WriterNext /\ UNCHANGED inVars
  <2>1. closed # "gone" /\ ret' = ret
    BY <1>2, WritingKeeps DEF inVars
  <2> QED
    BY <2>1 DEF ResultInv, RetOK
<1>3. CASE UNCHANGED vars
  BY <1>3 DEF vars, inVars, outVars, ResultInv, RetOK
<1> QED
  BY <1>1, <1>2, <1>3 DEF Next

LEMMA StepInOrder ==
  ASSUME WriterInv, CursorInv, CursorInv', ResultInv, [Next]_vars
  PROVE  [InOrder]_vars
<1>1. CASE closed = "gone" /\ ReaderNext /\ UNCHANGED outVars
  BY <1>1, ReaderInOrder
<1>2. CASE WriterNext /\ UNCHANGED inVars
  <2>1. /\ closed # "gone" /\ ret' = ret /\ cursorBar' = cursorBar
    BY <1>2, WritingKeeps DEF inVars, cursorBar, Cursor
  <2>2. ret'.op = "none"
    BY <2>1 DEF ResultInv
  <2> QED
    BY <2>1, <2>2, KeepsOrder DEF Cursors!Reading
<1> QED
  BY <1>1, <1>2 DEF Next

\* Whatever the file descriptor and the reads are like, also when skips leap beyond
\* what they were asked for and reads fail, a call that succeeds has delivered
\* the bytes of the file that follow the cursor, and the cursor never goes back:
\* no byte is delivered twice, out of order, or from a block that is gone
\* (CodedInputStream, CopyingInputStreamAdaptor, LimitingInputStream).
THEOREM DeliveredInOrder == Spec => DeliversInOrder
<1>1. Init => ResultInv
  BY DEF Init, InInit, NoResult, RetOK, ResultInv
<1>2. WriterInv /\ CursorInv /\ ResultInv /\ [Next]_vars => ResultInv'
  BY ResultKept
<1>3. WriterInv /\ CursorInv /\ CursorInv' /\ ResultInv /\ [Next]_vars
        => [InOrder]_vars
  BY StepInOrder
<1> QED
  BY <1>1, <1>2, <1>3, WriterInvariant, ReaderInvariant, PTL
     DEF Spec, DeliversInOrder, InOrder
=============================================================================
