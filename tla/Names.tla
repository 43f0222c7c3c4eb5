------------------------------- MODULE Names -------------------------------
(***************************************************************************)
(* The names agendafs works with, and the operations of path.c on them.    *)
(*                                                                         *)
(* A note is stored in the file <uid>.ics of the vdir and is identified    *)
(* here by its uid.  The name the user sees is text cut by dots: it is a   *)
(* sequence of the labels between the dots, so "a.txt" is <<a, txt>>,      *)
(* ".foo" is <<Blank, foo>> and "a.1.txt" is <<a, 1, txt>>.  The numbers   *)
(* that the code prints into a name are the naturals themselves.           *)
(***************************************************************************)
EXTENDS Integers, Sequences, FiniteSets

CONSTANTS
  Uids,     \* the uids a note can have
  Labels,   \* the texts between two dots of a name, other than numbers
  Blank,    \* the empty text
  NoExt     \* the NULL an absent extension is returned as

ASSUME LabelsAssumption == Blank \in Labels /\ NoExt \notin Labels \cup Nat

Label == Labels \cup Nat

Names == Seq(Label)

\* The least element of a set of numbers.
Least(S) == CHOOSE m \in S : \A n \in S : m <= n

-----------------------------------------------------------------------------

\* The text before the last dot; a name without a dot is returned whole.
without_file_extension(name) ==
  IF Len(name) > 1 THEN SubSeq(name, 1, Len(name) - 1) ELSE name

\* The text after the last dot, or NULL.
get_file_extension(name) ==
  IF Len(name) > 1 THEN name[Len(name)] ELSE NoExt

\* my-file.txt -> my-file.1.txt, and my-file -> my-file.1
filename_numbered(name, n) ==
  IF Len(name) > 1
    THEN SubSeq(name, 1, Len(name) - 1) \o <<n, name[Len(name)]>>
    ELSE Append(name, n)

\* The first number, counting from 1, whose numbered name is not one of the
\* `count` names taken.  Of count + 1 different names one is free.
first_free_number(name, taken, count) ==
  Least({n \in 1 .. count + 1 : filename_numbered(name, n) \notin taken})

(***************************************************************************)
(* A path as FUSE hands it over: absolute, so its first character is "/".  *)
(* dir stands for the node the part before the last slash resolves to.     *)
(***************************************************************************)
fuse_path(dir, name) == [lead |-> "/", dir |-> dir, name |-> name]

\* Tests the first character of the whole path.
pathIsHidden(path) == path.lead = "."

=============================================================================
