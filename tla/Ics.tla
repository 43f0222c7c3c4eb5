-------------------------------- MODULE Ics --------------------------------
(***************************************************************************)
(* The VJOURNAL component an ics file holds (ical_extra.c), reduced to the *)
(* properties that decide where a note is shown:                           *)
(*   summary  SUMMARY, <<>> when the file has none                         *)
(*   isdir    X-CALDAVFS-ISDIRECTORY is YES, or some RELATED-TO is a CHILD *)
(*   ext      the file extension property, NoExt when absent               *)
(*   parents  the RELATED-TO;RELTYPE=PARENT values, in file order          *)
(* Attributes that are only read back through xattr(7), and the text of    *)
(* the note, do not influence the tree and are left out.                   *)
(***************************************************************************)
EXTENDS Names

CONSTANTS
  NoFile,     \* the file does not exist
  DefaultExt  \* the ext= mount option; Blank when it was not given

ASSUME DefaultExtAssumption == DefaultExt \in Labels

\* A property without a text is gone when the file is read back.
Component ==
  [summary : Names \ {<<Blank>>}, isdir : BOOLEAN, ext : Label \cup {NoExt},
   parents : Seq(Uids)]

ASSUME NoFileAssumption == NoFile \notin Component

\* The summary of a note whose name is the empty text is read back as none.
stored_summary(name) == IF name = <<Blank>> THEN <<>> ELSE name

-----------------------------------------------------------------------------

create_vjournal_directory(name) ==
  [summary |-> stored_summary(name), isdir |-> TRUE, ext |-> NoExt,
   parents |-> <<>>]

\* "no extension" is stored as the text ".", which is read back as Blank.
create_vjournal_entry(name) ==
  [summary |-> stored_summary(without_file_extension(name)),
   isdir |-> FALSE,
   ext |-> IF get_file_extension(name) = NoExt
             THEN Blank ELSE get_file_extension(name),
   parents |-> <<>>]

\* The value of the first PARENT relation, as a set of at most one uid.
get_parent_uid(c) == IF c.parents = <<>> THEN {} ELSE {c.parents[1]}

\* The parents without p, one element at a time.
without_parent(p, parents) ==
  LET kept[i \in 0 .. Len(parents)] ==
        IF i = 0 THEN <<>>
        ELSE IF parents[i] = p THEN kept[i - 1]
        ELSE Append(kept[i - 1], parents[i])
  IN  kept[Len(parents)]

\* The old relation is forgotten about.
remove_parent_child_relationship_never(p, c) == c

\* Every PARENT relation that names p goes.
remove_parent_child_relationship(p, c) ==
  [c EXCEPT !.parents = without_parent(p, @)]

set_parent_child_relationship(p, c) == [c EXCEPT !.parents = Append(@, p)]

icalcomponent_mark_as_directory(c) == [c EXCEPT !.isdir = TRUE]

\* The extension is written into the summary as well.
update_summary_whole(c, name) == [c EXCEPT !.summary = stored_summary(name)]

\* Writes the name of the node into the summary.
update_summary(c, name) ==
  [c EXCEPT !.summary =
     stored_summary(IF c.isdir THEN name ELSE without_file_extension(name))]

\* A name without a dot leaves the stored extension as it is.
update_node_file_extension(c, name) ==
  IF get_file_extension(name) = NoExt
    THEN c
    ELSE [c EXCEPT !.ext = get_file_extension(name)]

-----------------------------------------------------------------------------

\* parse_ics_to_agenda_entry gives up on a component without a summary.
Loadable(c) == c # NoFile /\ c.summary # <<>>

\* The file name under which the note is shown.
entry_filename(c) ==
  LET ext == IF c.ext = NoExt THEN DefaultExt ELSE c.ext
  IN  IF c.isdir \/ ext = Blank THEN c.summary ELSE Append(c.summary, ext)

=============================================================================
