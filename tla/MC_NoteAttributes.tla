------------------------- MODULE MC_NoteAttributes -------------------------
(* Small instances of NoteAttributes for TLC. *)
EXTENDS NoteAttributesProperties, FiniteSetsExt

CONSTANTS key, otherKey, longKey, trusted

Custom_two == {key, otherKey, longKey}
Foreign_one == {trusted}

Texts == {"", "work", "full", "over", "20250101", "20250102", "unknown", "uid-1"}
Values_all == Texts \cup ClassNames \cup StatusNames
Dates_two == {"20250101", "20250102"}

\* "full" has the 64 kilobytes that are allowed, "over" one byte more.
ValueLength_all ==
  [v \in Values_all |-> CASE v = "full" -> 64 * 1024
                          [] v = "over" -> 64 * 1024 + 1
                          [] OTHER -> 10]
NameLength_all == [a \in Attributes |-> IF a = longKey THEN 256 ELSE 20]

\* A NUL ends each name of a list.
ListLength_all ==
  [names \in SUBSET Attributes |-> MapThenSumSet(LAMBDA a : NameLength[a] + 1, names)]

\* The length of a value and one more; the length of the list of a new note,
\* which is too short for some others; and room for everything.
Sizes_all == {0, 10, 11, 63, 64 * 1024}

Created == {create_vjournal_entry("uid-1"), create_vjournal_directory("uid-1")}

\* Notes of other programs: cancelled, or without a classification; and the
\* mount point.
Synced ==
  {[create_vjournal_directory("uid-1") EXCEPT !.status = "cancelled",
                                              !.categories = "work"],
   [create_vjournal_directory("uid-1") EXCEPT !.class = <<>>]}

AnyNote == Created \cup Synced \cup {RootNote}

\* Every attribute is set to what is right for it and to what is not.
AnySet ==
  ({longKey, trusted, "uid", "sibling"} \X {"work"})
    \cup ({key} \X {"", "work", "full", "over"})
    \cup ({"categories"} \X {"", "work"})
    \cup ({otherKey} \X {"work"})
    \cup ({"class"} \X {"public", "private", "unknown"})
    \cup ({"status"} \X (StatusNames \cup {"unknown"}))
    \cup ({"dtstart"} \X (Dates_two \cup {"", "unknown"}))
AnyRemoval == Attributes \ {longKey}

\* One of each kind.
AnyGet == {key, trusted, "categories", "class", "uid"}
=============================================================================
