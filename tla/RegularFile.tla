---------------------------- MODULE RegularFile ----------------------------
(***************************************************************************)
(* A file of a regular filesystem, as POSIX describes it: what a program   *)
(* that edits a note expects.                                              *)
(***************************************************************************)
EXTENDS Integers, Sequences

CONSTANTS
  Texts,   \* what a file can hold
  Pieces,  \* what one write can hold
  Offsets, \* where a read or write can begin
  Sizes,   \* how much a read can ask for
  Zero     \* the byte a gap is filled with

VARIABLES
  text,   \* the bytes of the file
  reply   \* what the last operation returned

\* The text with a piece laid over it.
overlaid(t, piece, offset) ==
  LET end == offset + Len(piece)
  IN  [i \in 1 .. IF end > Len(t) THEN end ELSE Len(t) |->
         IF i \in offset + 1 .. end THEN piece[i - offset]
         ELSE IF i <= Len(t) THEN t[i] ELSE Zero]

Truncate ==
  /\ text' = <<>>
  /\ UNCHANGED reply

Write(piece, offset) ==
  /\ text' = overlaid(text, piece, offset)
  /\ reply' = [op |-> "write", size |-> Len(piece)]

Read(size, offset) ==
  /\ LET end == offset + size
     IN  reply' = [op |-> "read",
                   bytes |-> SubSeq(text, offset + 1,
                               IF end < Len(text) THEN end ELSE Len(text))]
  /\ UNCHANGED text

Stat ==
  /\ reply' = [op |-> "stat", size |-> Len(text)]
  /\ UNCHANGED text

\* The file is replaced.
Replace ==
  /\ text' \in Texts
  /\ UNCHANGED reply

Init ==
  /\ text \in Texts
  /\ reply = [op |-> "none"]

Next ==
  \/ Truncate \/ Stat \/ Replace
  \/ \E offset \in Offsets :
       \/ \E piece \in Pieces : Write(piece, offset)
       \/ \E size \in Sizes : Read(size, offset)

Spec == Init /\ [][Next]_<<text, reply>>

=============================================================================
