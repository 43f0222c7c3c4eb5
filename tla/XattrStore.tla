----------------------------- MODULE XattrStore -----------------------------
(***************************************************************************)
(* What the extended attributes of a note promise, as agendafs(8), xattr(7)*)
(* and the manual pages of the calls put it: a value that was set is there *)
(* until it is set again or removed, what is not allowed is refused, what  *)
(* is refused changes nothing, and what is read is read whole.             *)
(***************************************************************************)
EXTENDS Naturals

CONSTANTS
  Custom,       \* names of user-provided attributes
  Foreign,      \* names outside the user. namespace
  Values,       \* the texts an attribute can be set to
  Empty,        \* the empty one
  Dates,        \* those that are date-times
  NameLength,   \* the length of each name
  ValueLength,  \* the length of each value
  ListLength,   \* the length of the list of each set of names
  Sizes,        \* the sizes of the buffers of callers
  NoData        \* what an attribute that is not set reads as

Attributes ==
  {"categories", "class", "status", "dtstart", "uid", "sibling"}
    \cup Custom \cup Foreign

VARIABLES
  store,  \* the value of each attribute
  reply   \* the last request and what it returned

\* Nothing else is accepted for these.
Allowed ==
  [class |-> {"public", "private", "confidential"},
   status |-> {"draft", "final"}, dtstart |-> Dates \cup {Empty}]

Acceptable(attr, value) ==
  /\ attr \notin {"uid", "sibling"} \cup Foreign
  /\ attr \in DOMAIN Allowed => value \in Allowed[attr]
  /\ NameLength[attr] <= 255
  /\ ValueLength[value] <= 64 * 1024

Removable(attr) == attr \notin {"status", "uid"} \cup Foreign

Set(attr, value) ==
  /\ reply' \in [op : {"set"}, attr : {attr}, value : {value},
                 result : {"OK", "EIO", "EPERM", "EINVAL", "EMSGSIZE"}]
  /\ IF reply'.result = "OK"
       THEN /\ Acceptable(attr, value)
            /\ store' = [store EXCEPT ![attr] =
                           IF value = Empty THEN NoData ELSE value]
       ELSE /\ reply'.result # "EIO" => ~Acceptable(attr, value)
            /\ UNCHANGED store

Remove(attr) ==
  /\ reply' \in [op : {"remove"}, attr : {attr}, value : {Empty},
                 result : {"OK", "EIO", "EPERM", "EINVAL"}]
  /\ IF reply'.result = "OK"
       THEN Removable(attr) /\ store' = [store EXCEPT ![attr] = NoData]
       ELSE (reply'.result # "EIO" => ~Removable(attr)) /\ UNCHANGED store

\* With size 0 the length alone is asked for; nothing is given in part.
Answer(content, length, size) ==
  IF size = 0 THEN [result |-> "OK", length |-> length, content |-> NoData]
  ELSE IF size < length
    THEN [result |-> "ERANGE", length |-> NoData, content |-> NoData]
  ELSE [result |-> "OK", length |-> length, content |-> content]

Get(attr, size) ==
  /\ reply' = [op |-> "get", attr |-> attr, size |-> size,
               answer |-> IF store[attr] = NoData
                 THEN [result |-> "ENODATA", length |-> NoData, content |-> NoData]
                 ELSE Answer(store[attr], ValueLength[store[attr]], size)]
  /\ UNCHANGED store

List(size) ==
  LET names == {attr \in Attributes : store[attr] # NoData}
  IN /\ reply' = [op |-> "list", size |-> size,
                  answer |-> Answer(names, ListLength[names], size)]
     /\ UNCHANGED store

Init ==
  /\ store \in [Attributes -> Values \cup {NoData}]
  /\ reply = [op |-> "none"]

Next ==
  \/ \E attr \in Attributes : Remove(attr)
  \/ \E attr \in Attributes, value \in Values : Set(attr, value)
  \/ \E attr \in Attributes, size \in Sizes : Get(attr, size)
  \/ \E size \in Sizes : List(size)

Spec == Init /\ [][Next]_<<store, reply>>

=============================================================================
