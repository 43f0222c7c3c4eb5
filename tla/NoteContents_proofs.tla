------------------------ MODULE NoteContents_proofs ------------------------
(***************************************************************************)
(* A note is a regular file for programs that write it anew or append to   *)
(* it, whatever the bytes, and however long texts and pieces are.          *)
(***************************************************************************)
EXTENDS NoteContents, SequenceTheorems, TLAPS

-----------------------------------------------------------------------------
(* Texts *)

\* The texts of up to n bytes are the sequences of that length.
LEMMA TextsAreSequences ==
  ASSUME NEW n \in Nat, NEW s
  PROVE  s \in TextsUpTo(n) <=> s \in Seq(Chars) /\ Len(s) <= n
  <1>1. ASSUME s \in TextsUpTo(n)
        PROVE  s \in Seq(Chars) /\ Len(s) <= n
    <2>1. PICK k \in 0 .. n : s \in [1 .. k -> Chars]
      BY <1>1 DEF TextsUpTo
    <2>2. k \in Nat /\ s \in Seq(Chars) /\ Len(s) = k
      BY <2>1
    <2> QED
      BY <2>1, <2>2
  <1>2. ASSUME s \in Seq(Chars), Len(s) <= n
        PROVE  s \in TextsUpTo(n)
    <2>1. Len(s) \in 0 .. n /\ s \in [1 .. Len(s) -> Chars]
      BY <1>2, LenProperties
    <2> QED
      BY <2>1 DEF TextsUpTo
  <1> QED
    BY <1>1, <1>2

\* What the component holds is a text, or none.
LEMMA OldText ==
  ASSUME NEW d \in Texts \cup {NoText}
  PROVE  /\ old_text(d) \in Texts
         /\ old_text(d) \in Seq(Chars)
         /\ Len(old_text(d)) \in 0 .. MaxLength
  <1>1. MaxLength \in Nat
    BY NoteContentsAssumption
  <1>2. <<>> \in Texts
    <2>1. <<>> \in Seq(Chars) /\ Len(<<>>) <= MaxLength
      BY <1>1
    <2> QED
      BY <1>1, <2>1, TextsAreSequences DEF Texts
  <1>3. old_text(d) \in Texts
    BY <1>2 DEF old_text
  <1>4. old_text(d) \in Seq(Chars) /\ Len(old_text(d)) <= MaxLength
    BY <1>1, <1>3, TextsAreSequences DEF Texts
  <1> QED
    BY <1>1, <1>3, <1>4, LenProperties

\* Writing a text and parsing it again gives the same text.
LEMMA WrittenText ==
  ASSUME NEW t \in Texts
  PROVE  /\ written(t) \in Texts \cup {NoText}
         /\ old_text(written(t)) = t
  BY NoTextAssumption DEF written, old_text

\* A piece is a sequence of bytes that is not empty.
LEMMA APiece ==
  ASSUME NEW buf \in Pieces
  PROVE  /\ buf \in Seq(Chars)
         /\ Len(buf) \in 1 .. MaxPiece
  <1>1. MaxPiece \in Nat
    BY NoteContentsAssumption
  <1>2. buf \in Seq(Chars) /\ Len(buf) <= MaxPiece /\ buf # <<>>
    BY <1>1, TextsAreSequences DEF Pieces
  <1> QED
    BY <1>1, <1>2, EmptySeq

\* The bytes of rstrins: those of the old text up to the offset, and the new.
LEMMA Rstrins ==
  ASSUME NEW s \in Seq(Chars), NEW buf \in Seq(Chars), NEW offset \in Nat,
         NEW n \in 0 .. Len(s), n <= offset, n = offset \/ n = Len(s)
  PROVE  /\ rstrins(s, offset, buf) \in Seq(Chars)
         /\ Len(rstrins(s, offset, buf)) = n + Len(buf)
         /\ \A i \in 1 .. n + Len(buf) :
              rstrins(s, offset, buf)[i] = IF i <= n THEN s[i] ELSE buf[i - n]
  <1> DEFINE front == SubSeq(s, 1, n)
  <1>1. n \in Nat /\ Len(s) \in Nat /\ Len(buf) \in Nat
    BY LenProperties
  <1>2. /\ front \in Seq(Chars)
        /\ Len(front) = n
        /\ \A i \in 1 .. n : front[i] = s[i]
    <2>1. \A i \in 1 .. n : s[i] \in Chars
      BY <1>1, ElementOfSeq
    <2> QED
      BY <1>1, <2>1, SubSeqProperties
  <1> HIDE DEF front
  <1>3. /\ front \o buf \in Seq(Chars)
        /\ Len(front \o buf) = n + Len(buf)
        /\ \A i \in 1 .. n + Len(buf) :
             (front \o buf)[i] = IF i <= n THEN front[i] ELSE buf[i - n]
    <2>1. /\ front \o buf \in Seq(Chars)
          /\ Len(front \o buf) = Len(front) + Len(buf)
          /\ \A i \in 1 .. Len(front) + Len(buf) :
               (front \o buf)[i] = IF i <= Len(front) THEN front[i]
                                                      ELSE buf[i - Len(front)]
      BY <1>2, ConcatProperties
    <2> QED
      BY <1>2, <2>1
  <1>4. rstrins(s, offset, buf) = front \o buf
    <2>1. n = IF offset <= Len(s) THEN offset ELSE Len(s)
      BY <1>1
    <2> QED
      BY <2>1 DEF rstrins, front
  <1> QED
    BY <1>1, <1>2, <1>3, <1>4

-----------------------------------------------------------------------------
(* The type invariant *)

\* What fuse_write leaves is a text.
LEMMA WriteKeepsTexts ==
  ASSUME description \in Texts \cup {NoText},
         NEW buf \in Pieces, NEW offset \in 0 .. MaxLength,
         offset + Len(buf) <= MaxLength
  PROVE  icalcomponent_insert_description(description, buf, offset) \in Texts
  <1> DEFINE s == old_text(description)
  <1>1. MaxLength \in Nat /\ offset \in Nat
    BY NoteContentsAssumption
  <1>2. s \in Seq(Chars) /\ Len(s) \in Nat
    BY OldText, <1>1
  <1>3. buf \in Seq(Chars) /\ Len(buf) \in Nat
    BY APiece, LenProperties
  <1> HIDE DEF s
  <1>4. /\ rstrins(s, offset, buf) \in Seq(Chars)
        /\ Len(rstrins(s, offset, buf)) <= offset + Len(buf)
    <2> DEFINE n == IF offset <= Len(s) THEN offset ELSE Len(s)
    <2>1. n \in 0 .. Len(s) /\ n <= offset /\ (n = offset \/ n = Len(s))
      BY <1>1, <1>2
    <2>2. n \in Nat
      BY <1>1, <1>2
    <2> HIDE DEF n
    <2>3. /\ rstrins(s, offset, buf) \in Seq(Chars)
          /\ Len(rstrins(s, offset, buf)) = n + Len(buf)
      <3>1. s \in Seq(Chars) /\ buf \in Seq(Chars) /\ offset \in Nat
        BY <1>1, <1>2, <1>3
      <3> QED
        BY <2>1, <3>1, Rstrins
    <2> QED
      BY <1>1, <1>3, <2>1, <2>2, <2>3
  <1>5. Len(rstrins(s, offset, buf)) \in Nat
    BY <1>4, LenProperties
  <1>6. rstrins(s, offset, buf) \in Texts
    BY <1>1, <1>3, <1>4, <1>5, TextsAreSequences DEF Texts
  <1> QED
    BY <1>6 DEF icalcomponent_insert_description, s

\* How many bytes fuse_read copies.
LEMMA BytesToRead ==
  ASSUME NEW len \in Nat, NEW size \in Nat, NEW offset \in Nat
  PROVE  /\ bytes_to_read(len, size, offset) \in 0 .. size
         /\ offset < len => offset + bytes_to_read(len, size, offset) <= len
         /\ offset >= len => bytes_to_read(len, size, offset) = 0
  BY DEF bytes_to_read

\* fuse_read never copies more bytes than the buffer has room for.
LEMMA ReadFits ==
  ASSUME NEW s \in Seq(Chars), NEW size \in 1 .. MaxPiece, NEW offset \in Nat
  PROVE  SubSeq(s, offset + 1, offset + bytes_to_read(Len(s), size, offset))
           \in TextsUpTo(MaxPiece)
  <1> DEFINE n == bytes_to_read(Len(s), size, offset)
             r == SubSeq(s, offset + 1, offset + n)
  <1>1. MaxPiece \in Nat /\ size \in Nat /\ Len(s) \in Nat
    BY NoteContentsAssumption, LenProperties
  <1>2. /\ n \in 0 .. size
        /\ offset < Len(s) => offset + n <= Len(s)
        /\ offset >= Len(s) => n = 0
    BY <1>1, BytesToRead
  <1> HIDE DEF n
  <1>3. \A i \in offset + 1 .. offset + n : s[i] \in Chars
    <2> TAKE i \in offset + 1 .. offset + n
    <2>1. i \in 1 .. Len(s)
      BY <1>1, <1>2
    <2> QED
      BY <2>1, ElementOfSeq
  <1>4. /\ r \in Seq(Chars)
        /\ Len(r) = IF offset + 1 <= offset + n THEN offset + n - (offset + 1) + 1
                                                ELSE 0
    <2> DEFINE lo == offset + 1
               hi == offset + n
    <2>1. lo \in Int /\ hi \in Int /\ \A i \in lo .. hi : s[i] \in Chars
      BY <1>2, <1>3
    <2> HIDE DEF lo, hi
    <2>2. /\ SubSeq(s, lo, hi) \in Seq(Chars)
          /\ Len(SubSeq(s, lo, hi)) = IF lo <= hi THEN hi - lo + 1 ELSE 0
      BY <2>1, SubSeqProperties
    <2>3. r = SubSeq(s, lo, hi) /\ lo = offset + 1 /\ hi = offset + n
      BY DEF lo, hi
    <2> HIDE DEF r
    <2> QED
      BY <1>2, <2>1, <2>2, <2>3
  <1>5. Len(r) <= MaxPiece
    BY <1>1, <1>2, <1>4
  <1> HIDE DEF r
  <1>6. r \in TextsUpTo(MaxPiece)
    BY <1>1, <1>4, <1>5, TextsAreSequences
  <1> QED
    BY <1>6 DEF r, n

LEMMA TypeInit == Init => TypeOK
  <1> SUFFICES ASSUME Init PROVE TypeOK
    OBVIOUS
  <1>1. reply.op = "none"
    BY DEF Init
  <1> QED
    BY <1>1 DEF Init, TypeOK

LEMMA TypeNext == TypeOK /\ [Next]_vars => TypeOK'
  <1> SUFFICES ASSUME TypeOK, [Next]_vars PROVE TypeOK'
    OBVIOUS
  <1>1. CASE fuse_open
    BY <1>1 DEF fuse_open, TypeOK
  <1>2. CASE fuse_getattr
    BY <1>2 DEF fuse_getattr, TypeOK
  <1>3. CASE Rewrite
    <2>1. description' \in Texts \cup {NoText}
      BY <1>3, OldText, WrittenText DEF Rewrite, TypeOK
    <2> QED
      BY <1>3, <2>1 DEF Rewrite, TypeOK
  <1>4. CASE Sync
    BY <1>4 DEF Sync, TypeOK
  <1>5. ASSUME NEW offset \in 0 .. MaxLength, NEW buf \in Pieces,
               fuse_write(buf, offset)
        PROVE  TypeOK'
    <2>1. description' \in Texts \cup {NoText}
      BY <1>5, WriteKeepsTexts, WrittenText DEF fuse_write, TypeOK
    <2> QED
      BY <1>5, <2>1 DEF fuse_write, TypeOK
  <1>6. ASSUME NEW offset \in 0 .. MaxLength, NEW size \in 1 .. MaxPiece,
               fuse_read(size, offset)
        PROVE  TypeOK'
    <2>1. old_text(description) \in Seq(Chars) /\ offset \in Nat
      BY OldText, NoteContentsAssumption DEF TypeOK
    <2>2. reply'.op = "read" /\ reply'.bytes \in TextsUpTo(MaxPiece)
      BY <1>6, <2>1, ReadFits DEF fuse_read
    <2> QED
      BY <1>6, <2>2 DEF fuse_read, TypeOK
  <1>7. CASE UNCHANGED vars
    BY <1>7 DEF vars, TypeOK
  <1> QED
    BY <1>1, <1>2, <1>3, <1>4, <1>5, <1>6, <1>7 DEF Next

\* Texts stay texts, and fuse_read never gives more bytes than it was asked
\* for, with any bytes and bounds, and wherever programs write.
THEOREM RepliesFit == Spec => []TypeOK
  BY TypeInit, TypeNext, PTL DEF Spec

-----------------------------------------------------------------------------
(* The refinement *)

\* The text of the regular file.
Text == IF truncated THEN <<>> ELSE old_text(description)

\* A write that leaves nothing behind it is a write of the regular file.
LEMMA WriteIsAWrite ==
  ASSUME NEW t \in Seq(Chars), NEW s \in Seq(Chars), NEW buf \in Seq(Chars),
         NEW offset \in Nat,
         t = s \/ t = <<>>,
         offset <= Len(t), offset + Len(buf) >= Len(t)
  PROVE  rstrins(s, offset, buf) = File!overlaid(t, buf, offset)
  <1>1. Len(s) \in Nat /\ Len(t) \in Nat /\ Len(buf) \in Nat
    BY LenProperties
  <1>2. offset <= Len(s) /\ \A i \in 1 .. offset : s[i] = t[i]
    BY <1>1, EmptySeq
  <1> DEFINE r == rstrins(s, offset, buf)
             o == File!overlaid(t, buf, offset)
  <1>3. /\ r \in Seq(Chars)
        /\ Len(r) = offset + Len(buf)
        /\ \A i \in 1 .. offset + Len(buf) :
             r[i] = IF i <= offset THEN s[i] ELSE buf[i - offset]
    <2>1. offset \in 0 .. Len(s) /\ offset <= offset
      BY <1>1, <1>2
    <2> QED
      BY <2>1, Rstrins
  <1>4. o = [i \in 1 .. offset + Len(buf) |->
               IF i \in offset + 1 .. offset + Len(buf) THEN buf[i - offset]
               ELSE IF i <= Len(t) THEN t[i] ELSE Zero]
    BY <1>1 DEF File!overlaid
  <1> HIDE DEF r, o
  <1>5. DOMAIN r = 1 .. offset + Len(buf)
    BY <1>3, LenProperties
  <1>6. \A i \in 1 .. offset + Len(buf) : r[i] = o[i]
    BY <1>1, <1>2, <1>3, <1>4
  <1>7. r = [i \in 1 .. offset + Len(buf) |-> r[i]]
    BY <1>3, <1>5, LenProperties
  <1>8. o = [i \in 1 .. offset + Len(buf) |-> o[i]]
    BY <1>4
  <1> QED
    BY <1>6, <1>7, <1>8 DEF r, o

\* The bytes fuse_read gives are those of the regular file.
LEMMA ReadIsARead ==
  ASSUME NEW s \in Seq(Chars), NEW size \in Nat \ {0}, NEW offset \in Nat
  PROVE  SubSeq(s, offset + 1, offset + bytes_to_read(Len(s), size, offset))
           = SubSeq(s, offset + 1,
               IF offset + size < Len(s) THEN offset + size ELSE Len(s))
  <1> DEFINE count == bytes_to_read(Len(s), size, offset)
             end == IF offset + size < Len(s) THEN offset + size ELSE Len(s)
  <1>1. Len(s) \in Nat
    BY LenProperties
  <1>2. \/ offset + count = end
        \/ offset + count < offset + 1 /\ end < offset + 1
    BY <1>1 DEF bytes_to_read
  <1>3. offset + 1 \in Int /\ offset + count \in Int /\ end \in Int
    BY <1>1 DEF bytes_to_read
  <1> SUFFICES SubSeq(s, offset + 1, offset + count) = SubSeq(s, offset + 1, end)
    OBVIOUS
  <1> HIDE DEF count, end
  <1>4. CASE offset + count < offset + 1 /\ end < offset + 1
    <2>1. SubSeq(s, offset + 1, offset + count) = <<>>
      BY <1>3, <1>4, SubSeqEmpty
    <2>2. SubSeq(s, offset + 1, end) = <<>>
      BY <1>3, <1>4, SubSeqEmpty
    <2> QED
      BY <2>1, <2>2
  <1> QED
    BY <1>2, <1>4

LEMMA FileInit == Init => File!Init
  <1> SUFFICES ASSUME Init PROVE File!Init
    OBVIOUS
  <1>1. old_text(description) \in Texts
    BY OldText DEF Init
  <1> QED
    BY <1>1 DEF Init, File!Init

\* Every step of the handlers is a step of the regular file, or none.
LEMMA FileNext ==
  ASSUME ~AnyOffset, TypeOK, [Next]_vars
  PROVE  [File!Next]_(<<Text, reply>>)
  <1>0. /\ description \in Texts \cup {NoText}
        /\ old_text(description) \in Texts
        /\ old_text(description) \in Seq(Chars)
        /\ MaxLength \in Nat /\ MaxPiece \in Nat \ {0}
    BY OldText, NoteContentsAssumption DEF TypeOK
  <1>1. CASE fuse_open
    BY <1>1 DEF fuse_open, File!Next, File!Truncate, Text
  <1>2. CASE fuse_getattr
    BY <1>2 DEF fuse_getattr, File!Next, File!Stat, Text
  <1>3. CASE Rewrite
    BY <1>0, <1>3, WrittenText DEF Rewrite, Text
  <1>4. CASE Sync
    <2>1. old_text(description') \in Texts
      BY <1>4, OldText DEF Sync
    <2> QED
      BY <1>4, <2>1 DEF Sync, File!Next, File!Replace, Text
  <1>5. ASSUME NEW offset \in 0 .. MaxLength, NEW buf \in Pieces,
               fuse_write(buf, offset)
        PROVE  File!Next
    <2> DEFINE s == old_text(description)
               r == icalcomponent_insert_description(description, buf, offset)
    <2>1. r \in Texts /\ description' = written(r)
      BY <1>0, <1>5, WriteKeepsTexts DEF fuse_write
    <2>2. old_text(description') = r
      BY <2>1, WrittenText
    <2>3. r = File!overlaid(Text, buf, offset)
      <3>1. offset <= Len(Text) /\ offset + Len(buf) >= Len(Text)
        BY <1>5, EmptySeq DEF fuse_write, leaves_nothing_behind, Text
      <3>2. Text \in Seq(Chars) /\ (Text = s \/ Text = <<>>)
        BY <1>0, EmptySeq DEF Text
      <3>3. rstrins(s, offset, buf) = File!overlaid(Text, buf, offset)
        <4>1. buf \in Seq(Chars) /\ offset \in Nat /\ s \in Seq(Chars)
          BY <1>0, APiece
        <4> HIDE DEF s
        <4> QED
          BY <3>1, <3>2, <4>1, WriteIsAWrite
      <3> QED
        BY <3>3 DEF icalcomponent_insert_description
    <2>4. File!Write(buf, offset)
      BY <1>5, <2>2, <2>3 DEF fuse_write, File!Write, Text
    <2> QED
      BY <2>4 DEF File!Next
  <1>6. ASSUME NEW offset \in 0 .. MaxLength, NEW size \in 1 .. MaxPiece,
               fuse_read(size, offset)
        PROVE  File!Next
    <2>1. offset \in Nat /\ size \in Nat \ {0}
      BY <1>0
    <2>2. File!Read(size, offset)
      BY <1>0, <1>6, <2>1, ReadIsARead DEF fuse_read, File!Read, Text
    <2> QED
      BY <2>2 DEF File!Next
  <1>7. CASE UNCHANGED vars
    BY <1>7 DEF vars, Text
  <1> QED
    BY <1>1, <1>2, <1>3, <1>4, <1>5, <1>6, <1>7 DEF Next

\* A program that writes a note anew or appends to it cannot tell it from a
\* regular file, with any bytes and however long texts and pieces are
\* (fuse_open, fuse_read, fuse_write, rstrins).
THEOREM NoteIsARegularFile ==
  ASSUME ~AnyOffset
  PROVE  Spec => LikeARegularFile
  <1>1. TypeOK /\ [Next]_vars => [File!Next]_(<<Text, reply>>)
    BY FileNext
  <1> QED
    BY <1>1, FileInit, RepliesFit, PTL
       DEF Spec, LikeARegularFile, File!Spec, Text

=============================================================================
