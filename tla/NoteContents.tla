---------------------------- MODULE NoteContents ----------------------------
(***************************************************************************)
(* The text of a note: the DESCRIPTION of its component, read and written  *)
(* through fuse_read and fuse_write.  fuse_write takes the text up to its  *)
(* offset, adds the new bytes, and drops the rest; an open with O_TRUNC    *)
(* drops nothing, for fuse_open does not look at the flags and there is no *)
(* truncate operation.                                                     *)
(*                                                                         *)
(* Not in the model: bytes after a NUL, which a C string loses, and writes *)
(* that fail (see Operations).                                             *)
(***************************************************************************)
EXTENDS Integers, Sequences

CONSTANTS
  Chars,      \* the bytes a text is made of
  NoText,     \* the component has no DESCRIPTION
  Zero,       \* the byte a regular filesystem fills a gap with
  AnyOffset,  \* whether programs write anywhere, see fuse_write
  MaxLength,  \* the longest text
  MaxPiece    \* the longest write, and the longest read

ASSUME NoteContentsAssumption ==
  /\ AnyOffset \in BOOLEAN
  /\ MaxLength \in Nat /\ MaxPiece \in Nat \ {0}

VARIABLES
  description,  \* the DESCRIPTION of the component, or NoText
  truncated,    \* a program has opened the note with O_TRUNC and not written
  reply         \* what the last operation returned

vars == <<description, truncated, reply>>

TextsUpTo(n) == UNION {[1 .. k -> Chars] : k \in 0 .. n}

Texts == TextsUpTo(MaxLength)
Pieces == TextsUpTo(MaxPiece) \ {<<>>}

ASSUME NoTextAssumption == NoText \notin Texts

-----------------------------------------------------------------------------

\* The text that icalcomponent_get_description finds, "" for NULL.
old_text(d) == IF d = NoText THEN <<>> ELSE d

\* What is read back of a component that write_ical_file wrote: an empty
\* DESCRIPTION is removed.
written(d) == IF d = <<>> THEN NoText ELSE d

\* The offset is not looked at: the bytes are added at the end.
rstrins_at_end(str, offset, buf) == str \o buf

\* The text up to the offset and the new bytes.
rstrins(str, offset, buf) ==
  SubSeq(str, 1, IF offset <= Len(str) THEN offset ELSE Len(str)) \o buf

icalcomponent_insert_description(d, buf, offset) ==
  rstrins(old_text(d), offset, buf)

\* The writes programs send that append to a note, write it anew from its
\* beginning, or change its end: they leave nothing behind them.
leaves_nothing_behind(buf, offset) ==
  LET len == IF truncated THEN 0 ELSE Len(old_text(description))
  IN  offset <= len /\ offset + Len(buf) >= len

-----------------------------------------------------------------------------

\* An open with O_TRUNC; without it an open changes nothing at all.
fuse_open ==
  /\ truncated' = TRUE
  /\ UNCHANGED <<description, reply>>

fuse_write(buf, offset) ==
  /\ AnyOffset \/ leaves_nothing_behind(buf, offset)
  /\ offset + Len(buf) <= MaxLength
  /\ description' =
       written(icalcomponent_insert_description(description, buf, offset))
  /\ truncated' = FALSE
  /\ reply' = [op |-> "write", size |-> Len(buf)]

\* The number of bytes does not depend on the buffer.
bytes_to_read_all(content_len, size, offset) ==
  IF offset >= content_len THEN 0 ELSE content_len - offset

bytes_to_read(content_len, size, offset) ==
  IF offset >= content_len THEN 0
  ELSE IF content_len - offset > size THEN size
  ELSE content_len - offset

\* Nobody looks at a note between an open with O_TRUNC and the first write
\* after it, when the old text would still be seen.
fuse_read(size, offset) ==
  LET text == old_text(description)
      n    == bytes_to_read(Len(text), size, offset)
  IN  /\ ~truncated
      /\ reply' = [op |-> "read", bytes |-> SubSeq(text, offset + 1, offset + n)]
      /\ UNCHANGED <<description, truncated>>

\* get_node_stat of a note that is not a directory.
fuse_getattr ==
  /\ ~truncated
  /\ reply' = [op |-> "stat", size |-> Len(old_text(description))]
  /\ UNCHANGED <<description, truncated>>

\* Any other handler that changes the component writes all of it.
Rewrite ==
  /\ description' = written(old_text(description))
  /\ UNCHANGED <<truncated, reply>>

\* Another program writes the ics file; its DESCRIPTION may be empty.
Sync ==
  /\ ~truncated
  /\ description' \in Texts \cup {NoText}
  /\ UNCHANGED <<truncated, reply>>

Init ==
  /\ description \in Texts \cup {NoText}
  /\ truncated = FALSE
  /\ reply = [op |-> "none"]

Next ==
  \/ fuse_open \/ fuse_getattr \/ Rewrite \/ Sync
  \/ \E offset \in 0 .. MaxLength :
       \/ \E buf \in Pieces : fuse_write(buf, offset)
       \/ \E size \in 1 .. MaxPiece : fuse_read(size, offset)

Spec == Init /\ [][Next]_vars

-----------------------------------------------------------------------------

\* The text of a note is short enough, and a reply has no more bytes than the
\* buffer of the read has room for (fuse_read copies into the buffer of
\* libfuse).
TypeOK ==
  /\ description \in Texts \cup {NoText}
  /\ truncated \in BOOLEAN
  /\ reply.op \in {"none", "write", "read", "stat"}
  /\ reply.op = "read" => reply.bytes \in TextsUpTo(MaxPiece)

File ==
  INSTANCE RegularFile WITH
    text    <- IF truncated THEN <<>> ELSE old_text(description),
    Offsets <- 0 .. MaxLength,
    Sizes   <- 1 .. MaxPiece

\* A program that writes a note anew, piece by piece after an open with
\* O_TRUNC, or appends to it, cannot tell it from a regular file, whatever
\* other handlers and programs do to the component: the truncation that
\* fuse_open does not do is done by the first fuse_write.
LikeARegularFile == File!Spec

=============================================================================
