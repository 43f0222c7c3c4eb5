--------------------------- MODULE NoteAttributes ---------------------------
(***************************************************************************)
(* The extended attributes of one node of the tree (the *xattr handlers of *)
(* main.c, the attribute functions of fuse_node.c and the X- properties of *)
(* ical_extra.c).  Each handler runs under entries_lock, reads the file of *)
(* the node, changes the component and writes the file again; so a handler *)
(* is one step, and the component in the file is the only state.           *)
(*                                                                         *)
(* The root has no file: RootNote stands for the NULL its component is.    *)
(***************************************************************************)
EXTENDS Naturals, Sequences

CONSTANTS
  Custom, Foreign, Values, Empty, Dates, NameLength, ValueLength, ListLength,
  Sizes, NoData,
  Cut,             \* what is in a buffer that is too small for a value
  RootNote,        \* the component of fuse_root, NULL
  OtherNotes,      \* components other programs wrote
  SetRequests,     \* the pairs <<attribute, value>> users set
  RemoveRequests,  \* the attributes users remove
  GetRequests      \* the attributes users read

Builtin == {"categories", "class", "status", "dtstart", "uid", "sibling"}

Attributes == Builtin \cup Custom \cup Foreign

ClassNames == {"public", "private", "confidential"}

StatusNames == {"draft", "final"}

(***************************************************************************)
(* The properties of a component, in file order where there can be several:*)
(*   categories  the text the CATEGORIES properties read as                *)
(*   class       the CLASS properties                                      *)
(*   status      the STATUS property; VJOURNAL knows one we do not         *)
(*   custom      the X-CALDAVFS-CUSTOM- properties                         *)
(***************************************************************************)
Note ==
  [categories : Values \cup {NoData}, class : Seq(ClassNames),
   status : StatusNames \cup {"cancelled", NoData},
   dtstart : Dates \cup {NoData}, uid : Values,
   custom : [Custom -> Values \cup {NoData}]]

\* A name of user. that is none of ours is a custom one; the others are foreign.
ASSUME NamesAssumption ==
  Custom \cap Foreign = {} /\ (Custom \cup Foreign) \cap Builtin = {}

ASSUME AttributesAssumption ==
  /\ Empty \in Values /\ Dates \subseteq Values \ {Empty}
  /\ ClassNames \cup StatusNames \subseteq Values \ {Empty}
  /\ NoData \notin Values /\ Cut \notin Values /\ RootNote \notin Note
  /\ OtherNotes \subseteq Note \cup {RootNote}
  /\ SetRequests \subseteq Attributes \X Values
  /\ RemoveRequests \cup GetRequests \subseteq Attributes
  /\ NameLength \in [Attributes -> Nat] /\ ValueLength \in [Values -> Nat]
  /\ ListLength \in [SUBSET Attributes -> Nat] /\ Sizes \subseteq Nat

VARIABLES
  note,   \* the component in the file
  alive,  \* the daemon has not aborted
  reply   \* the last request and what it returned

vars == <<note, alive, reply>>

-----------------------------------------------------------------------------
(* What the daemon creates *)

new_note(class, status, uid) ==
  [categories |-> NoData, class |-> class, status |-> status,
   dtstart |-> NoData, uid |-> uid, custom |-> [k \in Custom |-> NoData]]

create_vjournal_directory(uid) == new_note(<<"private">>, "final", uid)

\* The classification is added twice.
create_vjournal_entry(uid) == new_note(<<"private", "private">>, "draft", uid)

-----------------------------------------------------------------------------
(* Reading *)

get_node_class(n) == IF n.class = <<>> THEN NoData ELSE n.class[1]

format_ical_status(status) == IF status \in StatusNames THEN status ELSE NoData

\* The attributes that have a property of their own.
builtin_value(n, attr) ==
  [categories |-> n.categories, class |-> get_node_class(n),
   status |-> format_ical_status(n.status), dtstart |-> n.dtstart,
   uid |-> n.uid][attr]

\* The value that getxattr finds for an attribute; the root has none.
value_of(n, attr) ==
  IF n = RootNote \/ attr \in Foreign \cup {"sibling"} THEN NoData
  ELSE IF attr \in Custom THEN n.custom[attr]
  ELSE builtin_value(n, attr)

\* What is in the buffer of the caller: size counts the NUL at the end, so that
\* a value needs one byte more than its length.
snprintf(value, size) ==
  IF size = 0 THEN NoData ELSE IF size > ValueLength[value] THEN value ELSE Cut

\* The length is that of the value, whatever the size of the buffer.
fuse_getxattr(n, attr, size) ==
  IF value_of(n, attr) = NoData
    THEN [result |-> "ENODATA", length |-> NoData, content |-> NoData]
    ELSE [result |-> "OK", length |-> ValueLength[value_of(n, attr)],
          content |-> snprintf(value_of(n, attr), size)]

\* The start of a note is not listed.
fuse_listxattr_undated(n) ==
  {attr \in {"categories", "uid", "class", "status"} :
     builtin_value(n, attr) # NoData}
    \cup {k \in Custom : n.custom[k] # NoData}

\* The names in the order of the code; each is there when its value is.
fuse_listxattr(n) ==
  {attr \in {"categories", "dtstart", "class", "status"} :
     builtin_value(n, attr) # NoData}
    \cup {"uid"}
    \cup {k \in Custom : n.custom[k] # NoData}

-----------------------------------------------------------------------------
(* Writing *)

\* A property with an empty value is not there when the file is read again.
stored(value) == IF value = Empty THEN NoData ELSE value

\* Whatever is given is a class.
parse_ical_class_any(text) == text

parse_ical_class(text) == IF text \in ClassNames THEN text ELSE NoData

\* What is not draft is final; there is no such thing as an invalid status.
parse_ical_status(text) == IF text = "draft" THEN "draft" ELSE "final"

\* Changes the first CLASS property; a note without one stays without.
set_node_class(n, class) ==
  IF n.class = <<>> THEN n ELSE [n EXCEPT !.class[1] = class]

\* Removes the first CLASS property, if there is one.
delete_node_class(n) ==
  IF n.class = <<>> THEN n ELSE [n EXCEPT !.class = Tail(@)]

\* Looks for DTSTART in the VCALENDAR, where it never is: it is a property of
\* the VJOURNAL inside.
clear_dtstart(n) == n

\* The property is added beside the one that is there.
icalcomponent_set_custom_x_value_twice(n, key, value) ==
  IF n.custom[key] = NoData THEN [n EXCEPT !.custom[key] = stored(value)] ELSE n

icalcomponent_set_custom_x_value(n, key, value) ==
  [n EXCEPT !.custom[key] = stored(value)]

set_attribute(n, attr, value) ==
  CASE attr = "categories" -> [n EXCEPT !.categories = stored(value)]
    [] attr = "class"      -> set_node_class(n, parse_ical_class(value))
    [] attr = "status"     -> [n EXCEPT !.status = parse_ical_status(value)]
    [] attr = "dtstart" /\ value = Empty  -> clear_dtstart(n)
    [] attr = "dtstart" /\ value # Empty  -> [n EXCEPT !.dtstart = value]
    [] attr \in Custom     -> icalcomponent_set_custom_x_value(n, attr, value)

\* removexattr hands every other user. name on to the custom properties; uid
\* and sibling are not among those.
remove_attribute(n, attr) ==
  CASE attr = "categories"  -> [n EXCEPT !.categories = NoData]
    [] attr = "class"       -> delete_node_class(n)
    [] attr = "dtstart"     -> clear_dtstart(n)
    [] attr \in Custom      -> [n EXCEPT !.custom[attr] = NoData]
    [] attr \in {"uid", "sibling"} -> n

\* The checks of fuse_setxattr and of set_dtstart, in their order.
set_error(attr, value) ==
  IF NameLength[attr] >= 256 \/ ValueLength[value] >= 64 * 1024 THEN "EMSGSIZE"
  ELSE IF attr \in {"uid", "sibling"} THEN "EPERM"
  ELSE IF \/ attr = "dtstart" /\ value \notin Dates \cup {Empty}
          \/ attr = "class" /\ parse_ical_class(value) = NoData
          \/ attr = "status" /\ parse_ical_status(value) = NoData
          \/ attr \in Foreign
    THEN "EINVAL"
  ELSE "OK"

remove_error(attr) ==
  IF attr = "status" THEN "EPERM"
  ELSE IF attr \in Foreign THEN "EINVAL" ELSE "OK"

Reply(op, attr, value, result) ==
  reply' = [op |-> op, attr |-> attr, value |-> value, result |-> result]

\* A request of the root either finds no component and does nothing, or
\* follows the NULL or fails an assertion on it.
AtRoot(attr, op, value) ==
  /\ note = RootNote
  /\ UNCHANGED note
  /\ IF attr \in {"categories", "class", "status"}
       THEN Reply(op, attr, value, "OK") /\ UNCHANGED alive
       ELSE alive' = FALSE /\ UNCHANGED reply

\* write_ical_file: -EIO when the file cannot be opened, and 0 otherwise.
Write(n, op, attr, value) ==
  /\ note # RootNote
  /\ UNCHANGED alive
  /\ \/ note' = n /\ Reply(op, attr, value, "OK")
     \/ UNCHANGED note /\ Reply(op, attr, value, "EIO")

FuseSetxattr(attr, value) ==
  /\ alive
  /\ IF set_error(attr, value) # "OK"
       THEN /\ Reply("set", attr, value, set_error(attr, value))
            /\ UNCHANGED <<note, alive>>
       ELSE \/ AtRoot(attr, "set", value)
            \/ note # RootNote /\ Write(set_attribute(note, attr, value),
                                        "set", attr, value)

FuseRemovexattr(attr) ==
  /\ alive
  /\ IF remove_error(attr) # "OK"
       THEN /\ Reply("remove", attr, Empty, remove_error(attr))
            /\ UNCHANGED <<note, alive>>
       ELSE \/ AtRoot(attr, "remove", Empty)
            \/ note # RootNote /\ Write(remove_attribute(note, attr),
                                        "remove", attr, Empty)

\* Reading the uid of the root fails an assertion.
FuseGetxattr(attr, size) ==
  /\ alive
  /\ UNCHANGED note
  /\ IF note = RootNote /\ attr = "uid"
       THEN alive' = FALSE /\ UNCHANGED reply
       ELSE /\ reply' = [op |-> "get", attr |-> attr, size |-> size,
                         answer |-> fuse_getxattr(note, attr, size)]
            /\ UNCHANGED alive

\* The two memcpy are the wrong way round: a list that is too long is written
\* beyond the buffer, and for a shorter one the bytes behind it are read (one
\* NUL is there).  Either may kill the daemon.
FuseListxattr(size) ==
  LET names == fuse_listxattr(note)
      Answer(result, length, content) ==
        reply' = [op |-> "list", size |-> size,
                  answer |-> [result |-> result, length |-> length,
                              content |-> content]]
  IN /\ alive
     /\ UNCHANGED note
     /\ \/ /\ note = RootNote
           /\ Answer("EPERM", NoData, NoData)
           /\ UNCHANGED alive
        \/ /\ note # RootNote
           /\ Answer("OK", ListLength[names], IF size = 0 THEN NoData ELSE names)
           /\ UNCHANGED alive
        \/ /\ note # RootNote
           /\ size \notin {0, ListLength[names], ListLength[names] + 1}
           /\ Answer("none", ListLength[names], NoData)
           /\ alive' = FALSE

-----------------------------------------------------------------------------

Init ==
  /\ note \in OtherNotes
  /\ alive = TRUE
  /\ reply = [op |-> "none"]

Next ==
  \/ \E r \in SetRequests : FuseSetxattr(r[1], r[2])
  \/ \E attr \in RemoveRequests : FuseRemovexattr(attr)
  \/ \E attr \in GetRequests, size \in Sizes : FuseGetxattr(attr, size)
  \/ \E size \in Sizes : FuseListxattr(size)

Spec == Init /\ [][Next]_vars

=============================================================================
